---- MODULE Spec2Model ----
(***************************************************************************)
(* Array-backed doubly linked list with generation-checked node handles,   *)
(* in its two storage layouts:                                             *)
(*   arr-list/array_linked_list_slow_aos.hpp  (one Node record per slot)   *)
(*   arr-list/array_linked_list_fast_soa.hpp  (four parallel arrays)       *)
(* A list object is a record of its data members.  Every member function   *)
(* is an operator from a list (and its arguments) to an Outcome: the list  *)
(* it leaves behind, the exception it threw (err) or "ok", and what it     *)
(* returned.  Statements are applied in source order, one LET per          *)
(* statement, so that aliasing between slots behaves as in the code.       *)
(***************************************************************************)
EXTENDS Integers, Sequences, FiniteSets, TLC

\* ------------------------------------------------------------------ bounds
\* Largest capacity a list is constructed with.
MaxCapacity == 3
\* Stored values are 1..MaxValue; 0 is the value-initialised T{}.
MaxValue == 1
\* A slot is not allocated again once its generation has reached MaxGen, so
\* the uint32 counter never wraps in the model.
MaxGen == 3
\* The free-list is not pushed beyond capacity + MaxExtraFree entries.
MaxExtraFree == 1
\* A run makes at most MaxCalls calls on its lists.
MaxCalls == 6
\* The scripted run inserts values from 1..MaxScriptValue.
MaxScriptValue == 3
\* The uint32 generation counter is incremented modulo 2^GenBits; the wrap
\* lies beyond MaxGen, so only the runs that cycle one slot reach it.
GenBits == 3
\* int64_t storage of a FixedDouble is modelled with RawBits bits.
RawBits == 15
\* FixedDouble operations are tried on the raw values within MaxNear of 0, of
\* the scale and of both ends of the range, and on a few others.
MaxNear == 2
\* A run that also queries the lists makes at most MaxQueryCalls mutating
\* calls; its queries are not counted.
MaxQueryCalls == 4
\* The order books of the benchmark have a capacity of 1..MaxBookCapacity
\* (32 * 1024 in main), orders carry a qty of 1..MaxQty (1..10 in main), a
\* free run of a book makes at most MaxBookSteps calls and a churn workload
\* has MaxChurnOps steps (200'000 in main).
MaxBookCapacity == 2
MaxQty == 2
MaxBookSteps == 5
MaxChurnOps == 4
\* std::size_t arithmetic is modulo 2^SizeBits.  The code's width is 64; the
\* model keeps the wrap-around at a width TLC's 32-bit integers can hold.
SizeBits == 8

SizeModulus == 2 ^ SizeBits

\* static constexpr int kNull = -1;
kNull == -1

Values == 1..MaxValue

\* NodeHandle{}: index = -1, generation = 0.
NullHandle == [index |-> kNull, generation |-> 0]

\* Exceptions, named as the error kinds of the documentation:
\*   "CapacityExhausted"  std::overflow_error("no free slots left in the list")
\*   "InvalidHandle"      std::out_of_range("node handle is invalid or stale")
\*   "NoSuccessor"        std::out_of_range("no node exists after the given index")
\*   "Empty"              std::out_of_range("list is empty")
Errors == {"CapacityExhausted", "InvalidHandle", "NoSuccessor", "Empty"}

\* A call that returned normally / a call that threw before returning.
Return(L, handle, value) == [L |-> L, err |-> "ok", handle |-> handle, value |-> value]
Throw(L, e) == [L |-> L, err |-> e, handle |-> NullHandle, value |-> 0]

\* vector<int>::back / pop_back / push_back on the free-list.
vec_back(s) == s[Len(s)]
vec_pop_back(s) == SubSeq(s, 1, Len(s) - 1)
vec_push_back(s, x) == Append(s, x)

\* The elements of a sequence.
Range(s) == {s[k] : k \in 1..Len(s)}

\* ++generation on a std::uint32_t: modulo 2^32 in the code, modulo
\* 2^GenBits here.
GenModulus == 2 ^ GenBits
GenInc(g) == (g + 1) % GenModulus

\* ++size_ and --size_ on std::size_t.
SizeInc(n) == (n + 1) % SizeModulus
SizeDec(n) == (n - 1) % SizeModulus

\* ======================================================================
\* Row layout: arrlist_slow::ArrayLinkedList
\* ======================================================================

\* struct Node { T value{}; int next = kNull; int prev = kNull; uint32 generation = 0; }
Node == [value |-> 0, next |-> kNull, prev |-> kNull, generation |-> 0]

\* A constructor whose fill loop stops one index early (--i > 0 for i-- > 0):
\* slot 0 never gets onto the free-list.
slow_ArrayLinkedList_skips_slot_zero(capacity) ==
    [nodes_     |-> [i \in 0..(capacity - 1) |-> Node],
     free_list_ |-> [k \in 1..(capacity - 1) |-> capacity - k],
     head_      |-> kNull,
     tail_      |-> kNull,
     size_      |-> 0]

\* explicit ArrayLinkedList(std::size_t capacity), capacity > 0.
slow_ArrayLinkedList(capacity) ==
    [nodes_     |-> [i \in 0..(capacity - 1) |-> Node],
     free_list_ |-> [k \in 1..capacity |-> capacity - k],
     head_      |-> kNull,
     tail_      |-> kNull,
     size_      |-> 0]

\* The members as their default initialisers leave them, before the
\* constructor body has run: empty vectors, null head and tail, size 0.
slow_members ==
    [nodes_ |-> <<>>, free_list_ |-> <<>>, head_ |-> kNull, tail_ |-> kNull, size_ |-> 0]

\* The constructor call as a whole: it throws invalid_argument for capacity 0
\* before it touches a member, and fills the storage otherwise.
slow_construct(capacity) ==
    IF capacity = 0
    THEN Throw(slow_members, "InvalidCapacity")
    ELSE Return(slow_ArrayLinkedList(capacity), NullHandle, 0)

\* empty() that tests head_ for null instead of size_ for 0.
slow_empty_tests_head(L) == L.head_ = kNull

slow_capacity(L) == Cardinality(DOMAIN L.nodes_)
slow_size(L) == L.size_
slow_empty(L) == L.size_ = 0

\* ensure_valid_handle that compares generations with < instead of !=: a
\* handle older than the slot's current generation passes.
slow_ensure_valid_handle_accepts_older(L, handle) ==
    LET idx == handle.index
    IN  ~(\/ idx < 0
          \/ idx >= slow_capacity(L)
          \/ L.nodes_[idx].generation < handle.generation)

\* TRUE when ensure_valid_handle returns, FALSE when it throws out_of_range.
slow_ensure_valid_handle(L, handle) ==
    LET idx == handle.index
    IN  ~(\/ idx < 0
          \/ idx >= slow_capacity(L)
          \/ L.nodes_[idx].generation # handle.generation)

\* allocate_node without the node.value = std::move(value): the slot keeps
\* whatever value it held.
slow_allocate_node_drops_value(L, v) ==
    IF L.free_list_ = <<>>
    THEN Throw(L, "CapacityExhausted")
    ELSE LET idx == vec_back(L.free_list_)
             L1 == [L EXCEPT !.free_list_ = vec_pop_back(@)]
             L3 == [L1 EXCEPT !.nodes_[idx].next = kNull]
             L4 == [L3 EXCEPT !.nodes_[idx].prev = kNull]
             L5 == [L4 EXCEPT !.nodes_[idx].generation = GenInc(@)]
         IN  Return(L5, [index |-> idx, generation |-> L5.nodes_[idx].generation], 0)

\* allocate_node whose generation counter stops at its largest value
\* instead of wrapping to 0.
slow_allocate_node_saturates(L, v) ==
    IF L.free_list_ = <<>>
    THEN Throw(L, "CapacityExhausted")
    ELSE LET idx == vec_back(L.free_list_)
             L1 == [L EXCEPT !.free_list_ = vec_pop_back(@)]
             L2 == [L1 EXCEPT !.nodes_[idx].value = v]
             L3 == [L2 EXCEPT !.nodes_[idx].next = kNull]
             L4 == [L3 EXCEPT !.nodes_[idx].prev = kNull]
             L5 == [L4 EXCEPT !.nodes_[idx].generation =
                                  IF @ + 1 < GenModulus THEN @ + 1 ELSE @]
         IN  Return(L5, [index |-> idx, generation |-> L5.nodes_[idx].generation], 0)

\* allocate_node without the ++generation: the handle of a reallocated slot
\* repeats the generation of the slot's earlier handle.
slow_allocate_node_keeps_generation(L, v) ==
    IF L.free_list_ = <<>>
    THEN Throw(L, "CapacityExhausted")
    ELSE LET idx == vec_back(L.free_list_)
             L1 == [L EXCEPT !.free_list_ = vec_pop_back(@)]
             L2 == [L1 EXCEPT !.nodes_[idx].value = v]
             L3 == [L2 EXCEPT !.nodes_[idx].next = kNull]
             L4 == [L3 EXCEPT !.nodes_[idx].prev = kNull]
         IN  Return(L4, [index |-> idx, generation |-> L4.nodes_[idx].generation], 0)

slow_allocate_node(L, v) ==
    IF L.free_list_ = <<>>
    THEN Throw(L, "CapacityExhausted")
    ELSE LET idx == vec_back(L.free_list_)
             L1 == [L EXCEPT !.free_list_ = vec_pop_back(@)]
             L2 == [L1 EXCEPT !.nodes_[idx].value = v]
             L3 == [L2 EXCEPT !.nodes_[idx].next = kNull]
             L4 == [L3 EXCEPT !.nodes_[idx].prev = kNull]
             L5 == [L4 EXCEPT !.nodes_[idx].generation = GenInc(@)]
         IN  Return(L5, [index |-> idx, generation |-> L5.nodes_[idx].generation], 0)

\* release_node that also increments the generation of the slot it frees.
slow_release_node_bumps_generation(L, idx) ==
    LET L1 == [L EXCEPT !.nodes_[idx].next = kNull]
        L2 == [L1 EXCEPT !.nodes_[idx].prev = kNull]
        L3 == [L2 EXCEPT !.nodes_[idx].generation = GenInc(@)]
    IN  [L3 EXCEPT !.free_list_ = vec_push_back(@, idx)]

\* release_node that puts the index at the front of the free-list: slots are
\* reused first-in-first-out instead of last-in-first-out.
slow_release_node_pushes_front(L, idx) ==
    LET L1 == [L EXCEPT !.nodes_[idx].next = kNull]
        L2 == [L1 EXCEPT !.nodes_[idx].prev = kNull]
    IN  [L2 EXCEPT !.free_list_ = <<idx>> \o @]

slow_release_node(L, idx) ==
    LET L1 == [L EXCEPT !.nodes_[idx].next = kNull]
        L2 == [L1 EXCEPT !.nodes_[idx].prev = kNull]
    IN  [L2 EXCEPT !.free_list_ = vec_push_back(@, idx)]

slow_emplace_front(L, v) ==
    LET a == slow_allocate_node(L, v)
    IN  IF a.err # "ok" THEN a
        ELSE LET idx == a.handle.index
                 L1 == [a.L EXCEPT !.nodes_[idx].prev = kNull]
                 L2 == [L1 EXCEPT !.nodes_[idx].next = L1.head_]
                 L3 == IF L2.head_ # kNull
                       THEN [L2 EXCEPT !.nodes_[L2.head_].prev = idx]
                       ELSE [L2 EXCEPT !.tail_ = idx]
                 L4 == [L3 EXCEPT !.head_ = idx]
                 L5 == [L4 EXCEPT !.size_ = SizeInc(@)]
             IN  Return(L5, a.handle, 0)

\* emplace_back that leaves the old tail's next link alone: the new node
\* becomes tail_ but no chain from head_ reaches it.
slow_emplace_back_skips_link(L, v) ==
    LET a == slow_allocate_node(L, v)
    IN  IF a.err # "ok" THEN a
        ELSE LET idx == a.handle.index
                 L1 == [a.L EXCEPT !.nodes_[idx].next = kNull]
                 L2 == [L1 EXCEPT !.nodes_[idx].prev = L1.tail_]
                 L3 == IF L2.tail_ # kNull
                       THEN L2
                       ELSE [L2 EXCEPT !.head_ = idx]
                 L4 == [L3 EXCEPT !.tail_ = idx]
                 L5 == [L4 EXCEPT !.size_ = SizeInc(@)]
             IN  Return(L5, a.handle, 0)

slow_emplace_back(L, v) ==
    LET a == slow_allocate_node(L, v)
    IN  IF a.err # "ok" THEN a
        ELSE LET idx == a.handle.index
                 L1 == [a.L EXCEPT !.nodes_[idx].next = kNull]
                 L2 == [L1 EXCEPT !.nodes_[idx].prev = L1.tail_]
                 L3 == IF L2.tail_ # kNull
                       THEN [L2 EXCEPT !.nodes_[L2.tail_].next = idx]
                       ELSE [L2 EXCEPT !.head_ = idx]
                 L4 == [L3 EXCEPT !.tail_ = idx]
                 L5 == [L4 EXCEPT !.size_ = SizeInc(@)]
             IN  Return(L5, a.handle, 0)

\* emplace_after that allocates the new node before it validates the handle:
\* a call rejected with InvalidHandle has already taken a slot.
slow_emplace_after_allocates_first(L, handle, v) ==
    LET node_index == handle.index
        a == slow_allocate_node(L, v)
    IN  IF a.err # "ok" THEN a
        ELSE IF ~slow_ensure_valid_handle(L, handle) THEN Throw(a.L, "InvalidHandle")
        ELSE LET idx == a.handle.index
                 old_next == a.L.nodes_[node_index].next
                 L1 == [a.L EXCEPT !.nodes_[idx].prev = node_index]
                 L2 == [L1 EXCEPT !.nodes_[idx].next = old_next]
                 L3 == [L2 EXCEPT !.nodes_[node_index].next = idx]
                 L4 == IF old_next # kNull
                       THEN [L3 EXCEPT !.nodes_[old_next].prev = idx]
                       ELSE [L3 EXCEPT !.tail_ = idx]
                 L5 == [L4 EXCEPT !.size_ = SizeInc(@)]
             IN  Return(L5, a.handle, 0)

slow_emplace_after(L, handle, v) ==
    IF ~slow_ensure_valid_handle(L, handle) THEN Throw(L, "InvalidHandle")
    ELSE LET node_index == handle.index
             a == slow_allocate_node(L, v)
         IN  IF a.err # "ok" THEN a
             ELSE LET idx == a.handle.index
                      old_next == a.L.nodes_[node_index].next
                      L1 == [a.L EXCEPT !.nodes_[idx].prev = node_index]
                      L2 == [L1 EXCEPT !.nodes_[idx].next = old_next]
                      L3 == [L2 EXCEPT !.nodes_[node_index].next = idx]
                      L4 == IF old_next # kNull
                            THEN [L3 EXCEPT !.nodes_[old_next].prev = idx]
                            ELSE [L3 EXCEPT !.tail_ = idx]
                      L5 == [L4 EXCEPT !.size_ = SizeInc(@)]
                  IN  Return(L5, a.handle, 0)

slow_push_front(L, v) == slow_emplace_front(L, v)
slow_push_back(L, v) == slow_emplace_back(L, v)
slow_insert_after(L, handle, v) == slow_emplace_after(L, handle, v)

slow_pop_front(L) ==
    IF L.head_ = kNull THEN Throw(L, "Empty")
    ELSE LET idx == L.head_
             L1 == [L EXCEPT !.head_ = L.nodes_[idx].next]
             L2 == IF L1.head_ # kNull
                   THEN [L1 EXCEPT !.nodes_[L1.head_].prev = kNull]
                   ELSE [L1 EXCEPT !.tail_ = kNull]
             L3 == [L2 EXCEPT !.size_ = SizeDec(@)]
             value == L3.nodes_[idx].value
         IN  Return(slow_release_node(L3, idx), NullHandle, value)

slow_erase_after(L, handle) ==
    IF ~slow_ensure_valid_handle(L, handle) THEN Throw(L, "InvalidHandle")
    ELSE LET node_index == handle.index
             target == L.nodes_[node_index].next
         IN  IF target = kNull THEN Throw(L, "NoSuccessor")
             ELSE LET new_next == L.nodes_[target].next
                      L1 == [L EXCEPT !.nodes_[node_index].next = new_next]
                      L2 == IF new_next # kNull
                            THEN [L1 EXCEPT !.nodes_[new_next].prev = node_index]
                            ELSE [L1 EXCEPT !.tail_ = node_index]
                      L3 == [L2 EXCEPT !.size_ = SizeDec(@)]
                  IN  Return(slow_release_node(L3, target), NullHandle, 0)

slow_erase(L, handle) ==
    IF ~slow_ensure_valid_handle(L, handle) THEN Throw(L, "InvalidHandle")
    ELSE LET node_index == handle.index
             prev == L.nodes_[node_index].prev
             next == L.nodes_[node_index].next
             L1 == IF prev # kNull
                   THEN [L EXCEPT !.nodes_[prev].next = next]
                   ELSE [L EXCEPT !.head_ = next]
             L2 == IF next # kNull
                   THEN [L1 EXCEPT !.nodes_[next].prev = prev]
                   ELSE [L1 EXCEPT !.tail_ = prev]
             L3 == [L2 EXCEPT !.size_ = SizeDec(@)]
         IN  Return(slow_release_node(L3, node_index), NullHandle, 0)

\* for_each: the (value, index) pairs fn is called with, in order.  The loop
\* is followed for at most `fuel` slots; a chain of a list of capacity n has
\* shown every slot it can reach after n of them.
RECURSIVE slow_visit(_, _, _)
slow_visit(L, idx, fuel) ==
    IF idx = kNull \/ fuel = 0 THEN <<>>
    ELSE <<[value |-> L.nodes_[idx].value, index |-> idx]>>
         \o slow_visit(L, L.nodes_[idx].next, fuel - 1)

slow_for_each(L) == slow_visit(L, L.head_, slow_capacity(L))

\* TRUE when ensure_valid_node returns, FALSE when it throws out_of_range.
slow_ensure_valid_node(L, idx) == ~(idx < 0 \/ idx >= Cardinality(DOMAIN L.nodes_))

\* const T& at(int node_index) const.
slow_at(L, node_index) ==
    IF ~slow_ensure_valid_node(L, node_index) THEN Throw(L, "InvalidNode")
    ELSE Return(L, NullHandle, L.nodes_[node_index].value)

\* The three const queries as calls: the list they leave and what they
\* return (empty() returns 1 for true, 0 for false).
slow_call_capacity(L) == Return(L, NullHandle, slow_capacity(L))
slow_call_size(L) == Return(L, NullHandle, slow_size(L))
slow_call_empty(L) == Return(L, NullHandle, IF slow_empty(L) THEN 1 ELSE 0)

\* ======================================================================
\* Column layout: ArrayLinkedList of array_linked_list_fast_soa.hpp
\* ======================================================================

\* A constructor whose fill loop counts upwards: the free-list holds
\* 0..capacity-1 and its back, the first slot handed out, is capacity-1.
fast_ArrayLinkedList_fills_ascending(capacity) ==
    [values_      |-> [i \in 0..(capacity - 1) |-> 0],
     next_        |-> [i \in 0..(capacity - 1) |-> kNull],
     prev_        |-> [i \in 0..(capacity - 1) |-> kNull],
     generations_ |-> [i \in 0..(capacity - 1) |-> 0],
     free_list_   |-> [k \in 1..capacity |-> k - 1],
     head_        |-> kNull,
     tail_        |-> kNull,
     size_        |-> 0]

\* explicit ArrayLinkedList(std::size_t capacity), capacity > 0.
fast_ArrayLinkedList(capacity) ==
    [values_      |-> [i \in 0..(capacity - 1) |-> 0],
     next_        |-> [i \in 0..(capacity - 1) |-> kNull],
     prev_        |-> [i \in 0..(capacity - 1) |-> kNull],
     generations_ |-> [i \in 0..(capacity - 1) |-> 0],
     free_list_   |-> [k \in 1..capacity |-> capacity - k],
     head_        |-> kNull,
     tail_        |-> kNull,
     size_        |-> 0]

fast_members ==
    [values_ |-> <<>>, next_ |-> <<>>, prev_ |-> <<>>, generations_ |-> <<>>,
     free_list_ |-> <<>>, head_ |-> kNull, tail_ |-> kNull, size_ |-> 0]

fast_construct(capacity) ==
    IF capacity = 0
    THEN Throw(fast_members, "InvalidCapacity")
    ELSE Return(fast_ArrayLinkedList(capacity), NullHandle, 0)

fast_capacity(L) == Cardinality(DOMAIN L.values_)
fast_size(L) == L.size_
fast_empty(L) == L.size_ = 0

\* TRUE when ensure_valid_handle returns, FALSE when it throws out_of_range.
fast_ensure_valid_handle(L, handle) ==
    LET idx == handle.index
    IN  ~(\/ idx < 0
          \/ idx >= fast_capacity(L)
          \/ L.generations_[idx] # handle.generation)

\* allocate_node of the column layout without the ++generations_[idx].
fast_allocate_node_keeps_generation(L, v) ==
    IF L.free_list_ = <<>>
    THEN Throw(L, "CapacityExhausted")
    ELSE LET idx == vec_back(L.free_list_)
             L1 == [L EXCEPT !.free_list_ = vec_pop_back(@)]
             L2 == [L1 EXCEPT !.values_[idx] = v]
             L3 == [L2 EXCEPT !.next_[idx] = kNull]
             L4 == [L3 EXCEPT !.prev_[idx] = kNull]
         IN  Return(L4, [index |-> idx, generation |-> L4.generations_[idx]], 0)

fast_allocate_node(L, v) ==
    IF L.free_list_ = <<>>
    THEN Throw(L, "CapacityExhausted")
    ELSE LET idx == vec_back(L.free_list_)
             L1 == [L EXCEPT !.free_list_ = vec_pop_back(@)]
             L2 == [L1 EXCEPT !.values_[idx] = v]
             L3 == [L2 EXCEPT !.next_[idx] = kNull]
             L4 == [L3 EXCEPT !.prev_[idx] = kNull]
             L5 == [L4 EXCEPT !.generations_[idx] = GenInc(@)]
         IN  Return(L5, [index |-> idx, generation |-> L5.generations_[idx]], 0)

\* release_node that returns the index to the front of the free-list: freed
\* slots are reused oldest first instead of newest first.
fast_release_node_pushes_front(L, idx) ==
    LET L1 == [L EXCEPT !.next_[idx] = kNull]
        L2 == [L1 EXCEPT !.prev_[idx] = kNull]
    IN  [L2 EXCEPT !.free_list_ = <<idx>> \o @]

fast_release_node(L, idx) ==
    LET L1 == [L EXCEPT !.next_[idx] = kNull]
        L2 == [L1 EXCEPT !.prev_[idx] = kNull]
    IN  [L2 EXCEPT !.free_list_ = vec_push_back(@, idx)]

fast_emplace_front(L, v) ==
    LET a == fast_allocate_node(L, v)
    IN  IF a.err # "ok" THEN a
        ELSE LET idx == a.handle.index
                 L1 == [a.L EXCEPT !.prev_[idx] = kNull]
                 L2 == [L1 EXCEPT !.next_[idx] = L1.head_]
                 L3 == IF L2.head_ # kNull
                       THEN [L2 EXCEPT !.prev_[L2.head_] = idx]
                       ELSE [L2 EXCEPT !.tail_ = idx]
                 L4 == [L3 EXCEPT !.head_ = idx]
                 L5 == [L4 EXCEPT !.size_ = SizeInc(@)]
             IN  Return(L5, a.handle, 0)

fast_emplace_back(L, v) ==
    LET a == fast_allocate_node(L, v)
    IN  IF a.err # "ok" THEN a
        ELSE LET idx == a.handle.index
                 L1 == [a.L EXCEPT !.next_[idx] = kNull]
                 L2 == [L1 EXCEPT !.prev_[idx] = L1.tail_]
                 L3 == IF L2.tail_ # kNull
                       THEN [L2 EXCEPT !.next_[L2.tail_] = idx]
                       ELSE [L2 EXCEPT !.head_ = idx]
                 L4 == [L3 EXCEPT !.tail_ = idx]
                 L5 == [L4 EXCEPT !.size_ = SizeInc(@)]
             IN  Return(L5, a.handle, 0)

fast_emplace_after(L, handle, v) ==
    IF ~fast_ensure_valid_handle(L, handle) THEN Throw(L, "InvalidHandle")
    ELSE LET node_index == handle.index
             a == fast_allocate_node(L, v)
         IN  IF a.err # "ok" THEN a
             ELSE LET idx == a.handle.index
                      old_next == a.L.next_[node_index]
                      L1 == [a.L EXCEPT !.prev_[idx] = node_index]
                      L2 == [L1 EXCEPT !.next_[idx] = old_next]
                      L3 == [L2 EXCEPT !.next_[node_index] = idx]
                      L4 == IF old_next # kNull
                            THEN [L3 EXCEPT !.prev_[old_next] = idx]
                            ELSE [L3 EXCEPT !.tail_ = idx]
                      L5 == [L4 EXCEPT !.size_ = SizeInc(@)]
                  IN  Return(L5, a.handle, 0)

fast_pop_front(L) ==
    IF L.head_ = kNull THEN Throw(L, "Empty")
    ELSE LET idx == L.head_
             L1 == [L EXCEPT !.head_ = L.next_[idx]]
             L2 == IF L1.head_ # kNull
                   THEN [L1 EXCEPT !.prev_[L1.head_] = kNull]
                   ELSE [L1 EXCEPT !.tail_ = kNull]
             L3 == [L2 EXCEPT !.size_ = SizeDec(@)]
             value == L3.values_[idx]
         IN  Return(fast_release_node(L3, idx), NullHandle, value)

fast_erase_after(L, handle) ==
    IF ~fast_ensure_valid_handle(L, handle) THEN Throw(L, "InvalidHandle")
    ELSE LET node_index == handle.index
             target == L.next_[node_index]
         IN  IF target = kNull THEN Throw(L, "NoSuccessor")
             ELSE LET new_next == L.next_[target]
                      L1 == [L EXCEPT !.next_[node_index] = new_next]
                      L2 == IF new_next # kNull
                            THEN [L1 EXCEPT !.prev_[new_next] = node_index]
                            ELSE [L1 EXCEPT !.tail_ = node_index]
                      L3 == [L2 EXCEPT !.size_ = SizeDec(@)]
                  IN  Return(fast_release_node(L3, target), NullHandle, 0)

fast_erase(L, handle) ==
    IF ~fast_ensure_valid_handle(L, handle) THEN Throw(L, "InvalidHandle")
    ELSE LET node_index == handle.index
             prev == L.prev_[node_index]
             next == L.next_[node_index]
             L1 == IF prev # kNull
                   THEN [L EXCEPT !.next_[prev] = next]
                   ELSE [L EXCEPT !.head_ = next]
             L2 == IF next # kNull
                   THEN [L1 EXCEPT !.prev_[next] = prev]
                   ELSE [L1 EXCEPT !.tail_ = prev]
             L3 == [L2 EXCEPT !.size_ = SizeDec(@)]
         IN  Return(fast_release_node(L3, node_index), NullHandle, 0)

fast_push_front(L, v) == fast_emplace_front(L, v)
fast_push_back(L, v) == fast_emplace_back(L, v)
fast_insert_after(L, handle, v) == fast_emplace_after(L, handle, v)

RECURSIVE fast_visit(_, _, _)
fast_visit(L, idx, fuel) ==
    IF idx = kNull \/ fuel = 0 THEN <<>>
    ELSE <<[value |-> L.values_[idx], index |-> idx]>>
         \o fast_visit(L, L.next_[idx], fuel - 1)

fast_for_each(L) == fast_visit(L, L.head_, fast_capacity(L))

fast_ensure_valid_node(L, idx) == ~(idx < 0 \/ idx >= Cardinality(DOMAIN L.values_))

fast_at(L, node_index) ==
    IF ~fast_ensure_valid_node(L, node_index) THEN Throw(L, "InvalidNode")
    ELSE Return(L, NullHandle, L.values_[node_index])

fast_call_capacity(L) == Return(L, NullHandle, fast_capacity(L))
fast_call_size(L) == Return(L, NullHandle, fast_size(L))
fast_call_empty(L) == Return(L, NullHandle, IF fast_empty(L) THEN 1 ELSE 0)

\* ======================================================================
\* FixedDouble of fixed_double.hpp: a signed decimal with three fractional
\* digits, stored as an integer scaled by 1000
\* ======================================================================

\* static constexpr storage_type scale = 1000.
scale == 1000

\* storage_type is int64_t; the model keeps the two's complement range at
\* RawBits bits.  wide_type (__int128) holds every product and scaled
\* numerator of two storage values exactly, as TLC's integers do at this
\* width.
kMaxRaw == 2 ^ (RawBits - 1) - 1
kMinRaw == -(2 ^ (RawBits - 1))

\* A FixedDouble object: its one member raw_.
FixedDouble(raw) == [raw_ |-> raw]

\* Integer division of C++: the quotient truncated toward zero.
Abs(n) == IF n < 0 THEN -n ELSE n
cpp_div(n, d) ==
    IF (n < 0) = (d < 0) THEN Abs(n) \div Abs(d) ELSE -(Abs(n) \div Abs(d))

saturate_to_signed(value) ==
    IF value > kMaxRaw THEN kMaxRaw
    ELSE IF value < kMinRaw THEN kMinRaw
    ELSE value

\* from_raw that scales its argument as from_int does.
from_raw_scales(raw) == FixedDouble(saturate_to_signed(raw * scale))

from_raw(raw) == FixedDouble(raw)
raw_value(x) == x.raw_

from_int(value) == FixedDouble(saturate_to_signed(value * scale))

\* saturating_mul that divides with the floor of the quotient instead of
\* truncating it toward zero.
saturating_mul_floors(a, b) ==
    LET prod == a * b
    IN  saturate_to_signed(prod \div scale)

saturating_mul(a, b) ==
    LET prod == a * b
    IN  saturate_to_signed(cpp_div(prod, scale))

\* saturating_div that saturates a division by zero to the largest raw value
\* instead of throwing.
saturating_div_saturates_zero(num, den) ==
    IF den = 0 THEN [raw |-> kMaxRaw, err |-> "ok"]
    ELSE LET numerator == num * scale
         IN  [raw |-> saturate_to_signed(cpp_div(numerator, den)), err |-> "ok"]

\* The outcome of saturating_div: [raw, err]; it throws overflow_error for a
\* zero denominator.
saturating_div(num, den) ==
    IF den = 0 THEN [raw |-> 0, err |-> "DivideByZero"]
    ELSE LET numerator == num * scale
         IN  [raw |-> saturate_to_signed(cpp_div(numerator, den)), err |-> "ok"]

\* operator*(lhs, rhs) through operator*=, operator/(lhs, rhs) through
\* operator/=; the latter as an outcome [out, err], lhs unchanged on a throw.
op_mul(lhs, rhs) == FixedDouble(saturating_mul(lhs.raw_, rhs.raw_))
op_div(lhs, rhs) ==
    LET d == saturating_div(lhs.raw_, rhs.raw_)
    IN  IF d.err # "ok" THEN [out |-> lhs, err |-> d.err]
        ELSE [out |-> FixedDouble(d.raw), err |-> "ok"]

\* a /= other: the object a is afterwards, and how the call ended.  The
\* assignment to raw_ is not reached when saturating_div throws.
op_div_assign(self, other) ==
    LET d == saturating_div(self.raw_, other.raw_)
    IN  IF d.err # "ok" THEN [out |-> self, err |-> d.err]
        ELSE [out |-> [self EXCEPT !.raw_ = d.raw], err |-> "ok"]

\* operator/(int k) const: the outcomes it can have, as [out, err] with out
\* the object itself when no value is returned.  raw_ / k is a division of
\* storage_type; for raw_ == kMinRaw and k == -1 its result is not
\* representable, which is undefined behaviour: the build either traps or
\* wraps around to kMinRaw.
op_div_int(self, k) ==
    IF k = 0 THEN {[out |-> self, err |-> "DivideByZero"]}
    ELSE IF self.raw_ = kMinRaw /\ k = -1
    THEN {[out |-> self, err |-> "UndefinedBehaviour"],
          [out |-> from_raw(kMinRaw), err |-> "ok"]}
    ELSE LET res == cpp_div(self.raw_, k)
         IN  {[out |-> from_raw(res), err |-> "ok"]}

op_eq(lhs, rhs) == lhs.raw_ = rhs.raw_
op_lt(lhs, rhs) == lhs.raw_ < rhs.raw_
op_le(lhs, rhs) == lhs.raw_ <= rhs.raw_

\* No FixedDouble operation has been made.
FixedIdle ==
    [op |-> "none", a |-> 0, b |-> 0, out |-> FixedDouble(0), flag |-> FALSE, err |-> "ok"]

\* ======================================================================
\* benchmark.cpp: the order books over the two layouts and over std::list
\* ======================================================================

\* struct Order { id; qty; } and the value-initialised Order{}.
Order(id, qty) == [id |-> id, qty |-> qty]
OrderZero == Order(0, 0)

\* The outcome of a call on a book: the book it leaves and how it ended.
BookReturn(B) == [B |-> B, err |-> "ok"]
BookThrow(B, e) == [B |-> B, err |-> e]

\* SlowArrayLinkedList<Order> list_(capacity): every slot holds Order{}.
slow_list_of_orders(capacity) ==
    LET L == slow_ArrayLinkedList(capacity)
    IN  [L EXCEPT !.nodes_ = [i \in DOMAIN @ |-> [@[i] EXCEPT !.value = OrderZero]]]

\* for_each_value_unchecked: the values fn is called with, in order.
RECURSIVE slow_visit_value(_, _, _)
slow_visit_value(L, idx, fuel) ==
    IF idx = kNull \/ fuel = 0 THEN <<>>
    ELSE <<L.nodes_[idx].value>> \o slow_visit_value(L, L.nodes_[idx].next, fuel - 1)

slow_for_each_value_unchecked(L) == slow_visit_value(L, L.head_, slow_capacity(L))

\* sum += static_cast<std::uint64_t>(o.qty) over a sequence of orders.
RECURSIVE sum_qty(_)
sum_qty(orders) ==
    IF orders = <<>> THEN 0 ELSE orders[1].qty + sum_qty(Tail(orders))

\* ArrayListBook<SlowArrayLinkedList<Order>>.
slow_book_ArrayListBook(capacity) ==
    [list_ |-> slow_list_of_orders(capacity), handles_ |-> <<>>]

slow_book_size(B) == Len(B.handles_)
slow_book_capacity(B) == slow_capacity(B.list_)

\* add that stores the handle without inserting the order.
slow_book_add_skips_insert(B, order) ==
    BookReturn([B EXCEPT !.handles_ = vec_push_back(@, NullHandle)])

\* The rest of add once push_back has ended as o: an exception leaves add
\* before handles_ is touched; otherwise the handle is appended.
slow_book_add_rest(B, o) ==
    IF o.err # "ok" THEN BookThrow(B, o.err)
    ELSE BookReturn([list_ |-> o.L, handles_ |-> vec_push_back(B.handles_, o.handle)])

slow_book_add(B, order) == slow_book_add_rest(B, slow_push_back(B.list_, order))

\* cancel_at_position that does not move the last handle into the gap.
slow_book_cancel_rest_drops_last(B, pos, last, o) ==
    IF o.err # "ok" THEN BookThrow(B, o.err)
    ELSE BookReturn([list_ |-> o.L, handles_ |-> vec_pop_back(B.handles_)])

\* The rest of cancel_at_position once list_.erase(handle) has ended as o:
\* handles_[pos] = handles_[last]; handles_.pop_back().  handles_ is indexed
\* from 0 in the code and from 1 here.
slow_book_cancel_rest(B, pos, last, o) ==
    IF o.err # "ok" THEN BookThrow(B, o.err)
    ELSE BookReturn([list_    |-> o.L,
                     handles_ |-> vec_pop_back([B.handles_ EXCEPT
                                                   ![pos + 1] = B.handles_[last + 1]])])

slow_book_cancel_at_position(B, pos) ==
    IF pos >= Len(B.handles_) THEN BookReturn(B)
    ELSE slow_book_cancel_rest(B, pos, Len(B.handles_) - 1,
                                slow_erase(B.list_, B.handles_[pos + 1]))

slow_book_iterate_sum(B) == sum_qty(slow_for_each_value_unchecked(B.list_))

\* ArrayListBook<FastArrayLinkedList<Order>>.
fast_list_of_orders(capacity) ==
    LET L == fast_ArrayLinkedList(capacity)
    IN  [L EXCEPT !.values_ = [i \in DOMAIN @ |-> OrderZero]]

RECURSIVE fast_visit_value(_, _, _)
fast_visit_value(L, idx, fuel) ==
    IF idx = kNull \/ fuel = 0 THEN <<>>
    ELSE <<L.values_[idx]>> \o fast_visit_value(L, L.next_[idx], fuel - 1)

fast_for_each_value_unchecked(L) == fast_visit_value(L, L.head_, fast_capacity(L))

fast_book_ArrayListBook(capacity) ==
    [list_ |-> fast_list_of_orders(capacity), handles_ |-> <<>>]

fast_book_size(B) == Len(B.handles_)
fast_book_capacity(B) == fast_capacity(B.list_)

fast_book_add_rest(B, o) ==
    IF o.err # "ok" THEN BookThrow(B, o.err)
    ELSE BookReturn([list_ |-> o.L, handles_ |-> vec_push_back(B.handles_, o.handle)])

fast_book_add(B, order) == fast_book_add_rest(B, fast_push_back(B.list_, order))

fast_book_cancel_rest(B, pos, last, o) ==
    IF o.err # "ok" THEN BookThrow(B, o.err)
    ELSE BookReturn([list_    |-> o.L,
                     handles_ |-> vec_pop_back([B.handles_ EXCEPT
                                                   ![pos + 1] = B.handles_[last + 1]])])

fast_book_cancel_at_position(B, pos) ==
    IF pos >= Len(B.handles_) THEN BookReturn(B)
    ELSE fast_book_cancel_rest(B, pos, Len(B.handles_) - 1,
                                fast_erase(B.list_, B.handles_[pos + 1]))

fast_book_iterate_sum(B) == sum_qty(fast_for_each_value_unchecked(B.list_))

\* StdListBook.  A node of the std::list<Order> is [it, order], where it is
\* the identity of the node, the value its iterator compares by; a new node
\* gets the smallest identity no node of the list has.
list_book_StdListBook(capacity) == [orders_ |-> <<>>, handles_ |-> <<>>]

list_book_size(B) == Len(B.handles_)

std_list_new_node(orders) ==
    CHOOSE n \in 0..Len(orders) :
        /\ \A k \in 1..Len(orders) : orders[k].it # n
        /\ \A m \in 0..(n - 1) : \E k \in 1..Len(orders) : orders[k].it = m

\* orders_.insert(orders_.end(), order): the list and the iterator returned.
std_list_insert_end(orders, order) ==
    LET it == std_list_new_node(orders)
    IN  [orders |-> Append(orders, [it |-> it, order |-> order]), it |-> it]

\* orders_.erase(it), for an iterator of a node of the list.
std_list_erase(orders, it) == SelectSeq(orders, LAMBDA n : n.it # it)

\* StdListBook::add.
list_book_add(B, order) ==
    LET r == std_list_insert_end(B.orders_, order)
        B1 == [B EXCEPT !.orders_ = r.orders]
        B2 == [B1 EXCEPT !.handles_ = vec_push_back(@, r.it)]
    IN  BookReturn(B2)

\* Erasing through an iterator that names no node of the list is undefined
\* behaviour; the call then ends as "UndefinedBehaviour".
list_book_cancel_at_position(B, pos) ==
    IF pos >= Len(B.handles_) THEN BookReturn(B)
    ELSE LET last == Len(B.handles_) - 1
             it == B.handles_[pos + 1]
         IN  IF \A k \in 1..Len(B.orders_) : B.orders_[k].it # it
             THEN BookThrow(B, "UndefinedBehaviour")
             ELSE LET B1 == [B EXCEPT !.orders_ = std_list_erase(@, it)]
                      B2 == [B1 EXCEPT !.handles_[pos + 1] = B1.handles_[last + 1]]
                      B3 == [B2 EXCEPT !.handles_ = vec_pop_back(@)]
                  IN  BookReturn(B3)

list_book_iterate_sum(B) ==
    sum_qty([k \in 1..Len(B.orders_) |-> B.orders_[k].order])

\* The state of the benchmark program.  pc is the part of main it is in;
\* capacity, fill_orders, depth, erase_positions, churn_steps and order_idx
\* are main's locals of these names; i counts the steps replayed on the
\* books; step is the last step applied to the three books and err how it
\* ended on each; overflowed records that an add was made to a full book.
NoStep == [op |-> "none", cancel_pos |-> 0, order |-> OrderZero]

\* The benchmark program has not started.
BenchIdle == [pc |-> "idle"]

BenchStart ==
    [pc              |-> "main",
     capacity        |-> 0,
     fill_orders     |-> <<>>,
     depth           |-> 0,
     erase_positions |-> <<>>,
     churn_steps     |-> <<>>,
     order_idx       |-> 0,
     i               |-> 0,
     slow_book       |-> [list_ |-> slow_members, handles_ |-> <<>>],
     fast_book       |-> [list_ |-> fast_members, handles_ |-> <<>>],
     list_book       |-> list_book_StdListBook(0),
     step            |-> NoStep,
     err             |-> [slow |-> "ok", fast |-> "ok", list |-> "ok"],
     overflowed      |-> FALSE]

\* One step of bench_churn's loop body, applied to the three books:
\* book.add(step.order) for Op::Add, book.cancel_at_position(step.cancel_pos)
\* otherwise.
AfterStep(b, step, os, of, ol) ==
    [b EXCEPT !.slow_book = os.B,
              !.fast_book = of.B,
              !.list_book = ol.B,
              !.step = step,
              !.err = [slow |-> os.err, fast |-> of.err, list |-> ol.err],
              !.overflowed = @ \/ (step.op = "Add"
                                     /\ Len(b.slow_book.handles_) >= b.capacity)]

ApplyStep(b, step) ==
    IF step.op = "Add"
    THEN AfterStep(b, step, slow_book_add(b.slow_book, step.order),
                            fast_book_add(b.fast_book, step.order),
                            list_book_add(b.list_book, step.order))
    ELSE AfterStep(b, step, slow_book_cancel_at_position(b.slow_book, step.cancel_pos),
                            fast_book_cancel_at_position(b.fast_book, step.cancel_pos),
                            list_book_cancel_at_position(b.list_book, step.cancel_pos))

\* ======================================================================
\* The program: one list of each layout, constructed with the same
\* capacity and driven by the same calls.
\* ======================================================================

VARIABLES
    slow,         \* the arrlist_slow::ArrayLinkedList object
    fast,         \* the column-layout ArrayLinkedList object
    call,         \* the last call made: [op, handle, value]
    ret_slow,     \* how it ended on slow: [err, handle, value]
    ret_fast,     \* how it ended on fast: [err, handle, value]
    head_before,  \* head_ of slow and of fast when the last call started
    net,          \* successful inserts minus successful removes so far, per list
    issued,       \* the handles the insertions returned so far, in order, per list
    calls,        \* number of calls made so far
    script,       \* the values a scripted run inserts; empty in a free run
    fixed,        \* the last FixedDouble operation: [op, a, b, out, flag, err]
    bench         \* the benchmark program: its workloads and its three books

vars == <<slow, fast, call, ret_slow, ret_fast, head_before, net, issued, calls, script, fixed,
          bench>>

\* Handles a caller may present on a list of the given capacity: every index
\* from -1 to capacity (one past the end) with every generation.
Handles(capacity) == [index : (-1)..capacity, generation : 0..MaxGen]

InsertOps == {"push_front", "push_back", "insert_after"}
RemoveOps == {"pop_front", "erase_after", "erase"}
HandleOps == {"insert_after", "erase_after", "erase"}

Ret(o) == [err |-> o.err, handle |-> o.handle, value |-> o.value]

\* The bounds of the model, on the state a call leaves behind.
SlowInBounds(L) ==
    /\ \A i \in DOMAIN L.nodes_ : L.nodes_[i].generation <= MaxGen
    /\ Len(L.free_list_) <= slow_capacity(L) + MaxExtraFree

FastInBounds(L) ==
    /\ \A i \in DOMAIN L.generations_ : L.generations_[i] <= MaxGen
    /\ Len(L.free_list_) <= fast_capacity(L) + MaxExtraFree

NetAfter(op, n, err) ==
    IF err # "ok" THEN n
    ELSE IF op \in InsertOps THEN n + 1 ELSE n - 1

IssuedAfter(op, hs, o) ==
    IF o.err = "ok" /\ op \in InsertOps THEN Append(hs, o.handle) ELSE hs

\* One call, made on both lists.
Do(op, handle, value, os, of) ==
    /\ calls < MaxCalls
    /\ calls' = calls + 1
    /\ UNCHANGED <<script, fixed, bench>>
    /\ SlowInBounds(os.L)
    /\ FastInBounds(of.L)
    /\ slow' = os.L
    /\ fast' = of.L
    /\ call' = [op |-> op, handle |-> handle, value |-> value]
    /\ ret_slow' = Ret(os)
    /\ ret_fast' = Ret(of)
    /\ head_before' = [slow |-> slow.head_, fast |-> fast.head_]
    /\ net' = [slow |-> NetAfter(op, net.slow, os.err),
               fast |-> NetAfter(op, net.fast, of.err)]
    /\ issued' = [slow |-> IssuedAfter(op, issued.slow, os),
                  fast |-> IssuedAfter(op, issued.fast, of)]

Init ==
    \E capacity \in 1..MaxCapacity :
        /\ slow = slow_ArrayLinkedList(capacity)
        /\ fast = fast_ArrayLinkedList(capacity)
        /\ call = [op |-> "construct", handle |-> NullHandle, value |-> 0]
        /\ ret_slow = [err |-> "ok", handle |-> NullHandle, value |-> 0]
        /\ ret_fast = [err |-> "ok", handle |-> NullHandle, value |-> 0]
        /\ head_before = [slow |-> kNull, fast |-> kNull]
        /\ net = [slow |-> 0, fast |-> 0]
        /\ issued = [slow |-> <<>>, fast |-> <<>>]
        /\ calls = 0
        /\ fixed = FixedIdle
        /\ bench = BenchIdle
        /\ script = <<>>

PushFront ==
    \E v \in Values :
        Do("push_front", NullHandle, v, slow_push_front(slow, v), fast_push_front(fast, v))

PushBack ==
    \E v \in Values :
        Do("push_back", NullHandle, v, slow_push_back(slow, v), fast_push_back(fast, v))

PopFront ==
    Do("pop_front", NullHandle, 0, slow_pop_front(slow), fast_pop_front(fast))

\* The calls that take a handle, with the handle drawn from H.
InsertAfterWith(H) ==
    \E h \in H, v \in Values :
        Do("insert_after", h, v, slow_insert_after(slow, h, v), fast_insert_after(fast, h, v))

EraseAfterWith(H) ==
    \E h \in H :
        Do("erase_after", h, 0, slow_erase_after(slow, h), fast_erase_after(fast, h))

EraseWith(H) ==
    \E h \in H :
        Do("erase", h, 0, slow_erase(slow, h), fast_erase(fast, h))

\* A caller that may present any handle value.
InsertAfter == InsertAfterWith(Handles(slow_capacity(slow)))
EraseAfter == EraseAfterWith(Handles(slow_capacity(slow)))
Erase == EraseWith(Handles(slow_capacity(slow)))

Next ==
    \/ PushFront
    \/ PushBack
    \/ InsertAfter
    \/ PopFront
    \/ EraseAfter
    \/ Erase

Spec == Init /\ [][Next]_vars

\* A caller that presents the handles the insertions returned to it, the
\* default-constructed NodeHandle{} and a handle whose index is one past the
\* last slot.
IssuedHandles ==
    Range(issued.slow)
        \cup {NullHandle, [index |-> slow_capacity(slow), generation |-> 1]}

InsertAfterIssued == InsertAfterWith(IssuedHandles)
EraseAfterIssued == EraseAfterWith(IssuedHandles)
EraseIssued == EraseWith(IssuedHandles)

NextIssued ==
    \/ PushFront
    \/ PushBack
    \/ InsertAfterIssued
    \/ PopFront
    \/ EraseAfterIssued
    \/ EraseIssued

SpecIssued == Init /\ [][NextIssued]_vars

\* ----------------------------------------------------------------------
\* The scripted run: on lists of capacity 4,
\*   h1 = push_back(A); h2 = push_back(B); h3 = push_back(C);
\*   erase(h2); h4 = insert_after(h1, D); erase(h2)
\* for every choice of A, B, C, D.  `calls` is the position in the script.
ScriptInit ==
    /\ script \in [1..4 -> 1..MaxScriptValue]
    /\ slow = slow_ArrayLinkedList(4)
    /\ fast = fast_ArrayLinkedList(4)
    /\ call = [op |-> "construct", handle |-> NullHandle, value |-> 0]
    /\ ret_slow = [err |-> "ok", handle |-> NullHandle, value |-> 0]
    /\ ret_fast = [err |-> "ok", handle |-> NullHandle, value |-> 0]
    /\ head_before = [slow |-> kNull, fast |-> kNull]
    /\ net = [slow |-> 0, fast |-> 0]
    /\ issued = [slow |-> <<>>, fast |-> <<>>]
    /\ calls = 0
    /\ fixed = FixedIdle
    /\ bench = BenchIdle

ScriptPushBack ==
    /\ calls \in 0..2
    /\ LET v == script[calls + 1]
       IN  Do("push_back", NullHandle, v, slow_push_back(slow, v), fast_push_back(fast, v))

ScriptErase ==
    /\ calls \in {3, 5}
    /\ LET hs == issued.slow[2]
           hf == issued.fast[2]
       IN  Do("erase", hs, 0, slow_erase(slow, hs), fast_erase(fast, hf))

ScriptInsertAfter ==
    /\ calls = 4
    /\ LET hs == issued.slow[1]
           hf == issued.fast[1]
           v == script[4]
       IN  Do("insert_after", hs, v, slow_insert_after(slow, hs, v), fast_insert_after(fast, hf, v))

ScriptNext ==
    \/ ScriptPushBack
    \/ ScriptErase
    \/ ScriptInsertAfter

ScriptSpec == ScriptInit /\ [][ScriptNext]_vars

\* ----------------------------------------------------------------------
\* Runs that only push: a fresh list, then push_back calls only or push_front
\* calls only, taking their values from script in order, one more call than
\* the largest capacity so that the last call of every run meets a full list.
\* ----------------------------------------------------------------------
PushInit ==
    /\ \E capacity \in 1..MaxCapacity :
          /\ slow = slow_ArrayLinkedList(capacity)
          /\ fast = fast_ArrayLinkedList(capacity)
    /\ script \in [1..(MaxCapacity + 1) -> 1..MaxScriptValue]
    /\ call = [op |-> "construct", handle |-> NullHandle, value |-> 0]
    /\ ret_slow = [err |-> "ok", handle |-> NullHandle, value |-> 0]
    /\ ret_fast = [err |-> "ok", handle |-> NullHandle, value |-> 0]
    /\ head_before = [slow |-> kNull, fast |-> kNull]
    /\ net = [slow |-> 0, fast |-> 0]
    /\ issued = [slow |-> <<>>, fast |-> <<>>]
    /\ calls = 0
    /\ fixed = FixedIdle
    /\ bench = BenchIdle

PushBackOnly ==
    /\ calls < Len(script)
    /\ call.op \in {"construct", "push_back"}
    /\ LET v == script[calls + 1]
       IN  Do("push_back", NullHandle, v, slow_push_back(slow, v), fast_push_back(fast, v))

PushFrontOnly ==
    /\ calls < Len(script)
    /\ call.op \in {"construct", "push_front"}
    /\ LET v == script[calls + 1]
       IN  Do("push_front", NullHandle, v, slow_push_front(slow, v), fast_push_front(fast, v))

PushNext ==
    \/ PushBackOnly
    \/ PushFrontOnly

PushSpec == PushInit /\ [][PushNext]_vars

\* ----------------------------------------------------------------------
\* Runs that start before construction: the constructor is called with a
\* capacity from 0..MaxCapacity, and a list that was constructed is then
\* pushed to as in the runs above.
\* ----------------------------------------------------------------------
CtorInit ==
    /\ slow = slow_members
    /\ fast = fast_members
    /\ script \in [1..(MaxCapacity + 1) -> 1..MaxScriptValue]
    /\ call = [op |-> "none", handle |-> NullHandle, value |-> 0]
    /\ ret_slow = [err |-> "ok", handle |-> NullHandle, value |-> 0]
    /\ ret_fast = [err |-> "ok", handle |-> NullHandle, value |-> 0]
    /\ head_before = [slow |-> kNull, fast |-> kNull]
    /\ net = [slow |-> 0, fast |-> 0]
    /\ issued = [slow |-> <<>>, fast |-> <<>>]
    /\ calls = 0
    /\ fixed = FixedIdle
    /\ bench = BenchIdle

Construct ==
    /\ call.op = "none"
    /\ \E capacity \in 0..MaxCapacity :
          LET os == slow_construct(capacity)
              of == fast_construct(capacity)
          IN  /\ slow' = os.L
              /\ fast' = of.L
              /\ call' = [op |-> "construct", handle |-> NullHandle, value |-> capacity]
              /\ ret_slow' = Ret(os)
              /\ ret_fast' = Ret(of)
    /\ UNCHANGED <<head_before, net, issued, calls, script, fixed, bench>>

CtorPushBack ==
    /\ ret_slow.err # "InvalidCapacity"
    /\ PushBackOnly

CtorPushFront ==
    /\ ret_slow.err # "InvalidCapacity"
    /\ PushFrontOnly

CtorNext ==
    \/ Construct
    \/ CtorPushBack
    \/ CtorPushFront

CtorSpec == CtorInit /\ [][CtorNext]_vars

\* ----------------------------------------------------------------------
\* Runs that also query: between at most MaxQueryCalls calls of the
\* operations above (with handles returned earlier), the caller asks for
\* capacity(), size(), empty() and at(i), i from -1 up to the capacity.
\* ----------------------------------------------------------------------
QueryOps == {"capacity", "size", "empty", "at"}

Query(op, i, os, of) ==
    /\ slow' = os.L
    /\ fast' = of.L
    /\ call' = [op |-> op, handle |-> NullHandle, value |-> i]
    /\ ret_slow' = Ret(os)
    /\ ret_fast' = Ret(of)
    /\ UNCHANGED <<head_before, net, issued, calls, script, fixed, bench>>

QueryCapacity == Query("capacity", 0, slow_call_capacity(slow), fast_call_capacity(fast))
QuerySize == Query("size", 0, slow_call_size(slow), fast_call_size(fast))
QueryEmpty == Query("empty", 0, slow_call_empty(slow), fast_call_empty(fast))

QueryAt ==
    \E i \in (-1)..slow_capacity(slow) :
        Query("at", i, slow_at(slow, i), fast_at(fast, i))

QueryMutate ==
    /\ calls < MaxQueryCalls
    /\ NextIssued

QueryNext ==
    \/ QueryMutate
    \/ QueryCapacity
    \/ QuerySize
    \/ QueryEmpty
    \/ QueryAt

QuerySpec == Init /\ [][QueryNext]_vars

\* ----------------------------------------------------------------------
\* FixedDouble operations, one per run: from_raw and from_int on every value
\* of the storage range, the binary operations on every pair of sample raw
\* values.  The lists are not constructed in these runs.
\* ----------------------------------------------------------------------
FixedNear(r, c) == Abs(r - c) <= MaxNear

FixedRaws ==
    {r \in kMinRaw..kMaxRaw :
        \/ FixedNear(r, 0)
        \/ FixedNear(r, scale) \/ FixedNear(r, -scale)
        \/ FixedNear(r, kMinRaw) \/ FixedNear(r, kMaxRaw)
        \/ r \in {1500, -1500, 2000, -2000, 3250, -3250, 1625}}

FixedInit ==
    /\ slow = slow_members
    /\ fast = fast_members
    /\ script = <<>>
    /\ call = [op |-> "none", handle |-> NullHandle, value |-> 0]
    /\ ret_slow = [err |-> "ok", handle |-> NullHandle, value |-> 0]
    /\ ret_fast = [err |-> "ok", handle |-> NullHandle, value |-> 0]
    /\ head_before = [slow |-> kNull, fast |-> kNull]
    /\ net = [slow |-> 0, fast |-> 0]
    /\ issued = [slow |-> <<>>, fast |-> <<>>]
    /\ calls = 0
    /\ fixed = FixedIdle
    /\ bench = BenchIdle

FixedDo(op, a, b, out, flag, err) ==
    /\ fixed' = [op |-> op, a |-> a, b |-> b, out |-> out, flag |-> flag, err |-> err]
    /\ UNCHANGED <<slow, fast, call, ret_slow, ret_fast, head_before, net, issued, calls, script,
                   bench>>

FixedFromRaw ==
    /\ fixed.op = "none"
    /\ \E r \in kMinRaw..kMaxRaw :
        FixedDo("from_raw", r, 0, from_raw(r), FALSE, "ok")

FixedFromInt ==
    /\ fixed.op = "none"
    /\ \E v \in kMinRaw..kMaxRaw :
        FixedDo("from_int", v, 0, from_int(v), FALSE, "ok")

FixedMul ==
    /\ fixed.op = "none"
    /\ \E a, b \in FixedRaws :
        FixedDo("mul", a, b, op_mul(from_raw(a), from_raw(b)), FALSE, "ok")

FixedDiv ==
    /\ fixed.op = "none"
    /\ \E a, b \in FixedRaws :
        LET d == op_div(from_raw(a), from_raw(b))
        IN  FixedDo("div", a, b, d.out, FALSE, d.err)

FixedDivAssign ==
    /\ fixed.op = "none"
    /\ \E a, b \in FixedRaws :
        LET d == op_div_assign(from_raw(a), from_raw(b))
        IN  FixedDo("div_assign", a, b, d.out, FALSE, d.err)

FixedDivInt ==
    /\ fixed.op = "none"
    /\ \E a \in FixedRaws, k \in (-MaxNear)..MaxNear :
        \E d \in op_div_int(from_raw(a), k) :
            FixedDo("div_int", a, k, d.out, FALSE, d.err)

FixedEq ==
    /\ fixed.op = "none"
    /\ \E a, b \in FixedRaws :
        FixedDo("eq", a, b, FixedDouble(0), op_eq(from_raw(a), from_raw(b)), "ok")

FixedLt ==
    /\ fixed.op = "none"
    /\ \E a, b \in FixedRaws :
        FixedDo("lt", a, b, FixedDouble(0), op_lt(from_raw(a), from_raw(b)), "ok")

FixedLe ==
    /\ fixed.op = "none"
    /\ \E a, b \in FixedRaws :
        FixedDo("le", a, b, FixedDouble(0), op_le(from_raw(a), from_raw(b)), "ok")

FixedNext ==
    \/ FixedFromRaw
    \/ FixedFromInt
    \/ FixedMul
    \/ FixedDiv
    \/ FixedDivAssign
    \/ FixedDivInt
    \/ FixedEq
    \/ FixedLt
    \/ FixedLe

FixedSpec == FixedInit /\ [][FixedNext]_vars

\* ----------------------------------------------------------------------
\* Runs that cycle slots through the generation wrap: a list of capacity 1
\* or 2 is pushed to and popped from without limit on the generation.  The
\* first handle an insertion returns is kept in issued, and calls counts how
\* often its slot has been allocated again since; a run stops allocating
\* that slot after GenModulus times.
\* ----------------------------------------------------------------------
WrapInit ==
    /\ \E capacity \in 1..2 :
          /\ slow = slow_ArrayLinkedList(capacity)
          /\ fast = fast_ArrayLinkedList(capacity)
    /\ script = <<>>
    /\ call = [op |-> "construct", handle |-> NullHandle, value |-> 0]
    /\ ret_slow = [err |-> "ok", handle |-> NullHandle, value |-> 0]
    /\ ret_fast = [err |-> "ok", handle |-> NullHandle, value |-> 0]
    /\ head_before = [slow |-> kNull, fast |-> kNull]
    /\ net = [slow |-> 0, fast |-> 0]
    /\ issued = [slow |-> <<>>, fast |-> <<>>]
    /\ calls = 0
    /\ fixed = FixedIdle
    /\ bench = BenchIdle

\* The captured handle after a call: the first one returned.
WrapCaptured(hs, op, o) ==
    IF hs = <<>> /\ o.err = "ok" /\ op \in InsertOps THEN <<o.handle>> ELSE hs

\* 1 when the call allocated the captured handle's slot again.
WrapReallocated(hs, op, o) ==
    IF hs # <<>> /\ o.err = "ok" /\ op \in InsertOps /\ o.handle.index = hs[1].index
    THEN 1 ELSE 0

WrapDo(op, value, os, of) ==
    /\ calls + WrapReallocated(issued.slow, op, os) <= GenModulus
    /\ calls' = calls + WrapReallocated(issued.slow, op, os)
    /\ slow' = os.L
    /\ fast' = of.L
    /\ call' = [op |-> op, handle |-> NullHandle, value |-> value]
    /\ ret_slow' = Ret(os)
    /\ ret_fast' = Ret(of)
    /\ head_before' = [slow |-> slow.head_, fast |-> fast.head_]
    /\ issued' = [slow |-> WrapCaptured(issued.slow, op, os),
                  fast |-> WrapCaptured(issued.fast, op, of)]
    /\ UNCHANGED <<net, script, fixed, bench>>

WrapPushFront ==
    WrapDo("push_front", 1, slow_push_front(slow, 1), fast_push_front(fast, 1))

WrapPushBack ==
    WrapDo("push_back", 1, slow_push_back(slow, 1), fast_push_back(fast, 1))

WrapPopFront ==
    WrapDo("pop_front", 0, slow_pop_front(slow), fast_pop_front(fast))

WrapNext ==
    \/ WrapPushFront
    \/ WrapPushBack
    \/ WrapPopFront

WrapSpec == WrapInit /\ [][WrapNext]_vars

\* ----------------------------------------------------------------------
\* Free runs of the three books: each is constructed with the same capacity,
\* and every step calls add with a new order, or cancel_at_position with a
\* position from 0 to the capacity, on all three.
\* ----------------------------------------------------------------------
ListsIdle ==
    /\ slow = slow_members
    /\ fast = fast_members
    /\ script = <<>>
    /\ call = [op |-> "none", handle |-> NullHandle, value |-> 0]
    /\ ret_slow = [err |-> "ok", handle |-> NullHandle, value |-> 0]
    /\ ret_fast = [err |-> "ok", handle |-> NullHandle, value |-> 0]
    /\ head_before = [slow |-> kNull, fast |-> kNull]
    /\ net = [slow |-> 0, fast |-> 0]
    /\ issued = [slow |-> <<>>, fast |-> <<>>]
    /\ calls = 0
    /\ fixed = FixedIdle

BookInit ==
    /\ ListsIdle
    /\ \E capacity \in 1..MaxBookCapacity :
          bench = [BenchStart EXCEPT !.pc = "books",
                                    !.capacity = capacity,
                                    !.slow_book = slow_book_ArrayListBook(capacity),
                                    !.fast_book = fast_book_ArrayListBook(capacity),
                                    !.list_book = list_book_StdListBook(capacity)]

BookDo(step, made) ==
    /\ bench.pc = "books"
    /\ bench.i < MaxBookSteps
    /\ bench' = [ApplyStep(bench, step) EXCEPT !.i = @ + 1, !.order_idx = @ + made]
    /\ UNCHANGED <<slow, fast, call, ret_slow, ret_fast, head_before, net, issued, calls,
                   script, fixed>>

\* add of an order with the next id and some qty.
BookAdd ==
    \E qty \in 1..MaxQty :
        BookDo([op |-> "Add", cancel_pos |-> 0,
                order |-> Order(bench.order_idx + 1, qty)], 1)

BookCancelAtPosition ==
    \E pos \in 0..bench.capacity :
        BookDo([op |-> "Cancel", cancel_pos |-> pos, order |-> OrderZero], 0)

BookNext ==
    \/ BookAdd
    \/ BookCancelAtPosition

BookSpec == BookInit /\ [][BookNext]_vars

\* ----------------------------------------------------------------------
\* main of benchmark.cpp: the erase workload and the churn workload are
\* precomputed from full depth, and each is then replayed on three new books
\* preloaded with fill_orders.  The two workloads use separate generators
\* and separate books; a run follows one of them.  The draws of the random
\* generators are choices: a qty from 1..MaxQty, a position from the range
\* handed to the distribution, either value of the bernoulli draw.
\* ----------------------------------------------------------------------
\* An erase workload one step longer than the book is deep.
erase_ops_one_more(b) == b.capacity + 1

erase_ops(b) == b.capacity
churn_ops == MaxChurnOps

\* preload(book, orders) on the three books.
RECURSIVE preload(_, _)
preload(b, orders) ==
    IF orders = <<>> THEN b
    ELSE preload(ApplyStep(b, [op |-> "Add", cancel_pos |-> 0, order |-> orders[1]]),
                 Tail(orders))

\* The three books of a scenario, constructed with main's capacity.
NewBooks(b) ==
    [b EXCEPT !.slow_book = slow_book_ArrayListBook(b.capacity),
              !.fast_book = fast_book_ArrayListBook(b.capacity),
              !.list_book = list_book_StdListBook(b.capacity)]

WorkloadInit ==
    /\ ListsIdle
    /\ \E capacity \in 1..MaxBookCapacity :
       \E qty \in [1..capacity -> 1..MaxQty] :
       \E pc \in {"erase_positions", "churn_steps"} :
          bench = [BenchStart EXCEPT
                      !.pc = pc,
                      !.capacity = capacity,
                      !.fill_orders = [k \in 1..capacity |-> Order(k, qty[k])],
                      !.depth = capacity]

BenchDo(b) ==
    /\ bench' = b
    /\ UNCHANGED <<slow, fast, call, ret_slow, ret_fast, head_before, net, issued, calls,
                   script, fixed>>

\* One iteration of the loop that precomputes the erase positions.
GenErasePosition ==
    /\ bench.pc = "erase_positions"
    /\ Len(bench.erase_positions) < erase_ops(bench)
    /\ \E pos \in 0..SizeDec(bench.depth) :
          BenchDo([bench EXCEPT !.erase_positions = vec_push_back(@, pos),
                                !.depth = SizeDec(@)])

\* bench_erase up to its timed loop: new books, preloaded with fill_orders.
PreloadErase ==
    /\ bench.pc = "erase_positions"
    /\ Len(bench.erase_positions) = erase_ops(bench)
    /\ BenchDo([preload(NewBooks(bench), bench.fill_orders) EXCEPT !.pc = "erase_replay"])

\* One iteration of bench_erase's loop.
ReplayErase ==
    /\ bench.pc = "erase_replay"
    /\ bench.i < Len(bench.erase_positions)
    /\ BenchDo([ApplyStep(bench, [op |-> "Cancel",
                                   cancel_pos |-> bench.erase_positions[bench.i + 1],
                                   order |-> OrderZero])
                   EXCEPT !.i = @ + 1])

\* One iteration of the loop that precomputes the churn steps.
GenChurnStep ==
    /\ bench.pc = "churn_steps"
    /\ Len(bench.churn_steps) < churn_ops
    /\ \E draw \in BOOLEAN :
          LET do_add == IF bench.depth = 0 THEN TRUE
                        ELSE IF bench.depth = bench.capacity THEN FALSE
                        ELSE draw
          IN  IF do_add
              THEN \E qty \in 1..MaxQty :
                      BenchDo([bench EXCEPT
                          !.churn_steps = vec_push_back(@,
                              [op |-> "Add", cancel_pos |-> 0,
                               order |-> Order(bench.capacity + bench.order_idx + 1, qty)]),
                          !.order_idx = @ + 1,
                          !.depth = SizeInc(@)])
              ELSE \E pos \in 0..SizeDec(bench.depth) :
                      BenchDo([bench EXCEPT
                          !.churn_steps = vec_push_back(@,
                              [op |-> "Cancel", cancel_pos |-> pos, order |-> OrderZero]),
                          !.depth = SizeDec(@)])

\* bench_churn up to its timed loop.
PreloadChurn ==
    /\ bench.pc = "churn_steps"
    /\ Len(bench.churn_steps) = churn_ops
    /\ BenchDo([preload(NewBooks(bench), bench.fill_orders) EXCEPT !.pc = "churn_replay"])

\* One iteration of bench_churn's loop.
ReplayChurn ==
    /\ bench.pc = "churn_replay"
    /\ bench.i < Len(bench.churn_steps)
    /\ BenchDo([ApplyStep(bench, bench.churn_steps[bench.i + 1]) EXCEPT !.i = @ + 1])

WorkloadNext ==
    \/ GenErasePosition
    \/ PreloadErase
    \/ ReplayErase
    \/ GenChurnStep
    \/ PreloadChurn
    \/ ReplayChurn

WorkloadSpec == WorkloadInit /\ [][WorkloadNext]_vars

\* ======================================================================
\* Vocabulary of the properties
\* ======================================================================

\* How often x occurs in the sequence s.
Count(s, x) == Cardinality({k \in 1..Len(s) : s[k] = x})

\* The slots of the live chain: those for_each visits from head.
slow_live(L) == {p.index : p \in Range(slow_for_each(L))}
fast_live(L) == {p.index : p \in Range(fast_for_each(L))}

\* Of the handles returned so far: the newest one of each slot, and the
\* older ones, whose slot a later insertion has allocated again.
Newest(hs) == {hs[k] : k \in {k \in 1..Len(hs) :
                   \A j \in (k + 1)..Len(hs) : hs[j].index # hs[k].index}}
Retired(hs) == {hs[k] : k \in {k \in 1..Len(hs) :
                   \E j \in (k + 1)..Len(hs) : hs[j].index = hs[k].index}}

\* The last call ended normally / with the given exception, on both lists.
Ok == ret_slow.err = "ok" /\ ret_fast.err = "ok"
Failed(e) == ret_slow.err = e /\ ret_fast.err = e

\* ======================================================================
\* Claims
\* ======================================================================

\* C1: a handle returned by push_front/push_back/insert_after validates right
\* after the insertion, keeps validating while its element stays in the
\* chain, and no longer validates in the state right after erase(handle)
\* removed its element, whether or not the slot has been reused.
C1_SlowStep ==
    /\ (call'.op \in InsertOps /\ ret_slow'.err = "ok")
          => slow_ensure_valid_handle(slow', ret_slow'.handle)
    /\ \A h \in Newest(issued.slow) :
          (h.index \in slow_live(slow) /\ h.index \in slow_live(slow')
             /\ slow_ensure_valid_handle(slow, h) /\ issued'.slow = issued.slow)
          => slow_ensure_valid_handle(slow', h)
    /\ (call'.op = "erase" /\ ret_slow'.err = "ok"
          /\ call'.handle.index \in slow_live(slow))
          => ~slow_ensure_valid_handle(slow', call'.handle)

C1_FastStep ==
    /\ (call'.op \in InsertOps /\ ret_fast'.err = "ok")
          => fast_ensure_valid_handle(fast', ret_fast'.handle)
    /\ \A h \in Newest(issued.fast) :
          (h.index \in fast_live(fast) /\ h.index \in fast_live(fast')
             /\ fast_ensure_valid_handle(fast, h) /\ issued'.fast = issued.fast)
          => fast_ensure_valid_handle(fast', h)
    /\ (call'.op = "erase" /\ ret_fast'.err = "ok"
          /\ call'.handle.index \in fast_live(fast))
          => ~fast_ensure_valid_handle(fast', call'.handle)

C1_HandleInvalidOnceErased == [][C1_SlowStep /\ C1_FastStep]_vars

\* C2: erase called twice in a row with the handle of the head element: the
\* second call fails with InvalidHandle and leaves the list as the first
\* call left it.
C2_SecondEraseStep ==
    (/\ call.op = "erase"
     /\ Ok
     /\ call.handle.index = head_before.slow
     /\ call.handle.index = head_before.fast
     /\ call'.op = "erase"
     /\ call'.handle = call.handle)
    => (/\ ret_slow'.err = "InvalidHandle"
        /\ ret_fast'.err = "InvalidHandle"
        /\ slow' = slow
        /\ fast' = fast)

C2_SecondEraseOfHeadFails == [][C2_SecondEraseStep]_vars

\* C3: whenever erase, erase_after or insert_after accepts its handle, the
\* slot the handle names is occupied when the call starts: in the chain from
\* head and not on the free-list.
C3_AcceptStep ==
    /\ (call'.op \in HandleOps /\ ret_slow'.err # "InvalidHandle")
          => (/\ call'.handle.index \in slow_live(slow)
              /\ call'.handle.index \notin Range(slow.free_list_))
    /\ (call'.op \in HandleOps /\ ret_fast'.err # "InvalidHandle")
          => (/\ call'.handle.index \in fast_live(fast)
              /\ call'.handle.index \notin Range(fast.free_list_))

C3_AcceptedHandleNamesOccupiedSlot == [][C3_AcceptStep]_vars

\* C4: once a later insertion has allocated the slot of an earlier handle
\* again, the earlier handle never validates: erase, erase_after and
\* insert_after called with it fail with InvalidHandle and leave the list
\* unchanged, while the handle the later insertion returned is accepted.
C4_SlowStep ==
    /\ \A h \in Retired(issued'.slow) : ~slow_ensure_valid_handle(slow', h)
    /\ (call'.op \in HandleOps /\ call'.handle \in Retired(issued.slow))
          => (ret_slow'.err = "InvalidHandle" /\ slow' = slow)
    /\ (call'.op \in InsertOps /\ ret_slow'.err = "ok")
          => slow_ensure_valid_handle(slow', ret_slow'.handle)

C4_FastStep ==
    /\ \A h \in Retired(issued'.fast) : ~fast_ensure_valid_handle(fast', h)
    /\ (call'.op \in HandleOps /\ call'.handle \in Retired(issued.fast))
          => (ret_fast'.err = "InvalidHandle" /\ fast' = fast)
    /\ (call'.op \in InsertOps /\ ret_fast'.err = "ok")
          => fast_ensure_valid_handle(fast', ret_fast'.handle)

C4_ReallocatedSlotRejectsOldHandle == [][C4_SlowStep /\ C4_FastStep]_vars

\* An erase with the old handle of a slot that was allocated again has just
\* failed, and the newest handle of that slot validates.
C4_Witness ==
    /\ call.op = "erase"
    /\ call.handle \in Retired(issued.slow)
    /\ call.handle \in Retired(issued.fast)
    /\ Failed("InvalidHandle")
    /\ \E h \in Newest(issued.slow) :
          /\ h.index = call.handle.index
          /\ slow_ensure_valid_handle(slow, h)
          /\ fast_ensure_valid_handle(fast, h)

\* The values for_each visits, in order.
ValuesOf(visited) == [k \in 1..Len(visited) |-> visited[k].value]

\* C5: the scripted run on both layouts: after the three push_back calls
\* for_each visits [A, B, C]; after erase(h2), [A, C]; after
\* insert_after(h1, D), [A, D, C]; the second erase(h2) fails with
\* InvalidHandle, and size() is 3 at the end.
C5_Visits(vs) ==
    /\ ValuesOf(slow_for_each(slow)) = vs
    /\ ValuesOf(fast_for_each(fast)) = vs

C5_ScriptedRun ==
    LET A == script[1]
        B == script[2]
        C == script[3]
        D == script[4]
    IN  /\ calls \in 1..5 => Ok
        /\ calls = 3 => C5_Visits(<<A, B, C>>)
        /\ calls = 4 => C5_Visits(<<A, C>>)
        /\ calls = 5 => C5_Visits(<<A, D, C>>)
        /\ calls = 6 =>
              /\ Failed("InvalidHandle")
              /\ C5_Visits(<<A, D, C>>)
              /\ slow_size(slow) = 3
              /\ fast_size(fast) = 3

\* The script has run to its end: the second erase(h2) has been made.
C5_Witness ==
    /\ calls = 6
    /\ call.op = "erase"
    /\ call.handle = issued.slow[2]
    /\ Len(issued.slow) = 4
    /\ Failed("InvalidHandle")
    /\ slow_size(slow) = 3

\* C6: size() equals the number of successful inserts minus the number of
\* successful removes, and an insert fails with CapacityExhausted only when
\* size() equals capacity().
C6_SizeIsInsertsMinusRemoves ==
    /\ slow_size(slow) = net.slow
    /\ fast_size(fast) = net.fast
    /\ (call.op \in InsertOps /\ ret_slow.err = "CapacityExhausted")
          => slow_size(slow) = slow_capacity(slow)
    /\ (call.op \in InsertOps /\ ret_fast.err = "CapacityExhausted")
          => fast_size(fast) = fast_capacity(fast)

\* C7: every slot index is either exactly once on the free-list or a node of
\* the chain reachable from head, never both and never neither.
C7_SlotFreeXorLive ==
    /\ \A i \in DOMAIN slow.nodes_ :
          \/ (Count(slow.free_list_, i) = 1 /\ i \notin slow_live(slow))
          \/ (Count(slow.free_list_, i) = 0 /\ i \in slow_live(slow))
    /\ \A i \in DOMAIN fast.values_ :
          \/ (Count(fast.free_list_, i) = 1 /\ i \notin fast_live(fast))
          \/ (Count(fast.free_list_, i) = 0 /\ i \in fast_live(fast))

\* C8: head and tail are both null exactly when size() is 0; otherwise head's
\* prev and tail's next are null and no other live slot has a null prev or a
\* null next.
C8_SlowEnds ==
    /\ (slow.head_ = kNull /\ slow.tail_ = kNull) <=> (slow_size(slow) = 0)
    /\ slow_size(slow) > 0 =>
          /\ slow.head_ # kNull
          /\ slow.tail_ # kNull
          /\ slow.nodes_[slow.head_].prev = kNull
          /\ slow.nodes_[slow.tail_].next = kNull
          /\ \A i \in slow_live(slow) :
                /\ (slow.nodes_[i].prev = kNull => i = slow.head_)
                /\ (slow.nodes_[i].next = kNull => i = slow.tail_)

C8_FastEnds ==
    /\ (fast.head_ = kNull /\ fast.tail_ = kNull) <=> (fast_size(fast) = 0)
    /\ fast_size(fast) > 0 =>
          /\ fast.head_ # kNull
          /\ fast.tail_ # kNull
          /\ fast.prev_[fast.head_] = kNull
          /\ fast.next_[fast.tail_] = kNull
          /\ \A i \in fast_live(fast) :
                /\ (fast.prev_[i] = kNull => i = fast.head_)
                /\ (fast.next_[i] = kNull => i = fast.tail_)

C8_HeadTailNullIffEmpty == C8_SlowEnds /\ C8_FastEnds

\* C9: size() stays within [0, capacity()].  The claim's lower bound is
\* strict, which no freshly constructed list meets (size() is 0 there); the
\* bound checked here is the weaker 0 <= size(), and the upper bound is the
\* claim's.
C9_SizeWithinCapacity ==
    /\ 0 <= slow_size(slow) /\ slow_size(slow) <= slow_capacity(slow)
    /\ 0 <= fast_size(fast) /\ fast_size(fast) <= fast_capacity(fast)

\* C10: a call that fails with CapacityExhausted, InvalidHandle, NoSuccessor
\* or Empty leaves the whole list as it was: size, head, tail, every slot's
\* value, links and generation, and the free-list.
C10_FailStep ==
    /\ ret_slow'.err \in Errors => slow' = slow
    /\ ret_fast'.err \in Errors => fast' = fast

C10_FailedCallChangesNothing == [][C10_FailStep]_vars

\* insert_after with a handle that validates has just failed on a full list.
C10_Witness ==
    /\ call.op = "insert_after"
    /\ Failed("CapacityExhausted")
    /\ slow_ensure_valid_handle(slow, call.handle)
    /\ fast_ensure_valid_handle(fast, call.handle)
    /\ slow.free_list_ = <<>>
    /\ slow_size(slow) = slow_capacity(slow)

\* The sequence s back to front.
Reverse(s) == [k \in 1..Len(s) |-> s[Len(s) + 1 - k]]

\* The values the successful calls of a run of pushes stored, in call order:
\* the first size() values of script (a push on a full list stores nothing).
C11_Pushed(n) == SubSeq(script, 1, n)

\* C11: on a list that was constructed empty and has seen only push_back
\* calls, for_each visits the stored values in the order of their insertion;
\* after only push_front calls it visits them in the reverse of that order.
C11_PushOrder ==
    /\ call.op = "push_back" =>
          /\ ValuesOf(slow_for_each(slow)) = C11_Pushed(Len(issued.slow))
          /\ ValuesOf(fast_for_each(fast)) = C11_Pushed(Len(issued.fast))
    /\ call.op = "push_front" =>
          /\ ValuesOf(slow_for_each(slow)) = Reverse(C11_Pushed(Len(issued.slow)))
          /\ ValuesOf(fast_for_each(fast)) = Reverse(C11_Pushed(Len(issued.fast)))
    /\ call.op \in {"push_back", "push_front"} =>
          /\ Len(issued.slow) = IF calls < slow_capacity(slow) THEN calls ELSE slow_capacity(slow)
          /\ Len(issued.fast) = IF calls < fast_capacity(fast) THEN calls ELSE fast_capacity(fast)

\* Three push_front calls stored three values, the first and the last of them
\* different, and for_each visits the last one first.
C11_Witness ==
    /\ call.op = "push_front"
    /\ Ok
    /\ Len(issued.slow) = 3
    /\ script[1] # script[3]
    /\ ValuesOf(slow_for_each(slow)) = <<script[3], script[2], script[1]>>

\* C12: the row layout and the column layout, constructed with the same
\* capacity and given the same calls, agree after every call: the call ended
\* the same way (normally or with the same exception), returned the same
\* handle (index and generation) and value, and the two lists have the same
\* size() and the same for_each output (values and indices, in order).
C12_LayoutsAgree ==
    /\ slow_capacity(slow) = fast_capacity(fast)
    /\ ret_slow.err = ret_fast.err
    /\ ret_slow.handle = ret_fast.handle
    /\ ret_slow.value = ret_fast.value
    /\ slow_size(slow) = fast_size(fast)
    /\ slow_empty(slow) = fast_empty(fast)
    /\ slow_for_each(slow) = fast_for_each(fast)

\* Both lists have just erased an element of a list of two or more after a
\* slot was already reused, and still hold an element.
C12_Witness ==
    /\ call.op = "erase"
    /\ Ok
    /\ Len(slow_for_each(slow)) >= 1
    /\ Len(fast_for_each(fast)) >= 1
    /\ Retired(issued.slow) # {}
    /\ Retired(issued.fast) # {}

\* C13: pop_front fails with Empty exactly when size() is 0 (so also on a
\* freshly constructed list); otherwise it returns the value for_each would
\* visit first, removes that element, lowers size() by one and leaves the
\* remaining elements in their order.
C13_SlowStep ==
    call'.op = "pop_front" =>
       /\ (ret_slow'.err = "Empty") <=> (slow_size(slow) = 0)
       /\ ret_slow'.err # "Empty" =>
             /\ ret_slow'.err = "ok"
             /\ slow_for_each(slow) # <<>>
             /\ ret_slow'.value = Head(slow_for_each(slow)).value
             /\ slow_for_each(slow') = Tail(slow_for_each(slow))
             /\ slow_size(slow') = slow_size(slow) - 1

C13_FastStep ==
    call'.op = "pop_front" =>
       /\ (ret_fast'.err = "Empty") <=> (fast_size(fast) = 0)
       /\ ret_fast'.err # "Empty" =>
             /\ ret_fast'.err = "ok"
             /\ fast_for_each(fast) # <<>>
             /\ ret_fast'.value = Head(fast_for_each(fast)).value
             /\ fast_for_each(fast') = Tail(fast_for_each(fast))
             /\ fast_size(fast') = fast_size(fast) - 1

C13_PopFrontFailsIffEmpty == [][C13_SlowStep /\ C13_FastStep]_vars

\* The sequence s with x put in after position k (0: in front).
InsertAt(s, k, x) == SubSeq(s, 1, k) \o <<x>> \o SubSeq(s, k + 1, Len(s))

\* The sequence s without its element at position k.
DeleteAt(s, k) == SubSeq(s, 1, k - 1) \o SubSeq(s, k + 1, Len(s))

\* The position of slot idx in the for_each output, 0 when it is not visited.
PositionOf(visited, idx) ==
    IF \E k \in 1..Len(visited) : visited[k].index = idx
    THEN CHOOSE k \in 1..Len(visited) : visited[k].index = idx
    ELSE 0

\* C14: insert_after fails with InvalidHandle when its handle does not
\* validate; given the handle of an element of the chain and a free slot, the
\* new element is visited right after the anchor and before the anchor's old
\* successor, all other elements keep their order, and tail becomes the new
\* element exactly when the anchor was the tail (the last element visited).
C14_SlowStep ==
    call'.op = "insert_after" =>
       LET h == call'.handle
           before == slow_for_each(slow)
           k == PositionOf(before, h.index)
           new == [value |-> call'.value, index |-> ret_slow'.handle.index]
       IN  /\ ~slow_ensure_valid_handle(slow, h) => ret_slow'.err = "InvalidHandle"
           /\ (/\ slow_ensure_valid_handle(slow, h)
               /\ k # 0
               /\ slow.free_list_ # <<>>)
              => /\ ret_slow'.err = "ok"
                 /\ slow_for_each(slow') = InsertAt(before, k, new)
                 /\ (k = Len(before)) <=> (slow'.tail_ = new.index)

C14_FastStep ==
    call'.op = "insert_after" =>
       LET h == call'.handle
           before == fast_for_each(fast)
           k == PositionOf(before, h.index)
           new == [value |-> call'.value, index |-> ret_fast'.handle.index]
       IN  /\ ~fast_ensure_valid_handle(fast, h) => ret_fast'.err = "InvalidHandle"
           /\ (/\ fast_ensure_valid_handle(fast, h)
               /\ k # 0
               /\ fast.free_list_ # <<>>)
              => /\ ret_fast'.err = "ok"
                 /\ fast_for_each(fast') = InsertAt(before, k, new)
                 /\ (k = Len(before)) <=> (fast'.tail_ = new.index)

C14_InsertAfterSplices == [][C14_SlowStep /\ C14_FastStep]_vars

\* C15: erase with the handle of an element of the chain removes exactly that
\* element: for_each afterwards visits what it visited before without that
\* one element; head moves to the successor when the element was the head,
\* tail to the predecessor when it was the tail, and the slot index is pushed
\* onto the free-list.
C15_SlowStep ==
    LET h == call'.handle
        before == slow_for_each(slow)
        k == PositionOf(before, h.index)
    IN  (/\ call'.op = "erase"
         /\ slow_ensure_valid_handle(slow, h)
         /\ k # 0)
        => /\ ret_slow'.err = "ok"
           /\ slow_for_each(slow') = DeleteAt(before, k)
           /\ k = 1 =>
                 slow'.head_ = IF Len(before) > 1 THEN before[2].index ELSE kNull
           /\ k = Len(before) =>
                 slow'.tail_ = IF k > 1 THEN before[k - 1].index ELSE kNull
           /\ slow'.free_list_ = Append(slow.free_list_, h.index)

C15_FastStep ==
    LET h == call'.handle
        before == fast_for_each(fast)
        k == PositionOf(before, h.index)
    IN  (/\ call'.op = "erase"
         /\ fast_ensure_valid_handle(fast, h)
         /\ k # 0)
        => /\ ret_fast'.err = "ok"
           /\ fast_for_each(fast') = DeleteAt(before, k)
           /\ k = 1 =>
                 fast'.head_ = IF Len(before) > 1 THEN before[2].index ELSE kNull
           /\ k = Len(before) =>
                 fast'.tail_ = IF k > 1 THEN before[k - 1].index ELSE kNull
           /\ fast'.free_list_ = Append(fast.free_list_, h.index)

C15_EraseRemovesExactlyOne == [][C15_SlowStep /\ C15_FastStep]_vars

\* C16: erase_after fails with InvalidHandle when its handle does not
\* validate and with NoSuccessor when the handle's element is the tail (the
\* last element visited); otherwise it removes exactly the element that
\* follows the anchor in for_each order, makes the anchor the tail when the
\* removed element was the tail, and leaves the anchor's handle valid.
C16_SlowStep ==
    call'.op = "erase_after" =>
       LET h == call'.handle
           before == slow_for_each(slow)
           k == PositionOf(before, h.index)
       IN  /\ ~slow_ensure_valid_handle(slow, h) => ret_slow'.err = "InvalidHandle"
           /\ (slow_ensure_valid_handle(slow, h) /\ k # 0 /\ k = Len(before))
                 => ret_slow'.err = "NoSuccessor"
           /\ (slow_ensure_valid_handle(slow, h) /\ k # 0 /\ k < Len(before))
                 => /\ ret_slow'.err = "ok"
                    /\ slow_for_each(slow') = DeleteAt(before, k + 1)
                    /\ k + 1 = Len(before) => slow'.tail_ = h.index
                    /\ slow_ensure_valid_handle(slow', h)

C16_FastStep ==
    call'.op = "erase_after" =>
       LET h == call'.handle
           before == fast_for_each(fast)
           k == PositionOf(before, h.index)
       IN  /\ ~fast_ensure_valid_handle(fast, h) => ret_fast'.err = "InvalidHandle"
           /\ (fast_ensure_valid_handle(fast, h) /\ k # 0 /\ k = Len(before))
                 => ret_fast'.err = "NoSuccessor"
           /\ (fast_ensure_valid_handle(fast, h) /\ k # 0 /\ k < Len(before))
                 => /\ ret_fast'.err = "ok"
                    /\ fast_for_each(fast') = DeleteAt(before, k + 1)
                    /\ k + 1 = Len(before) => fast'.tail_ = h.index
                    /\ fast_ensure_valid_handle(fast', h)

C16_EraseAfterRemovesSuccessor == [][C16_SlowStep /\ C16_FastStep]_vars

\* C17: in whatever state earlier calls left the list, a push_front that
\* succeeds makes the new element the first one for_each visits and a
\* push_back that succeeds makes it the last one; both keep the existing
\* elements in their order, raise size() by one (in size_t arithmetic), and
\* set head and tail to the new element when the list was empty.
C17_SlowStep ==
    LET before == slow_for_each(slow)
        new == [value |-> call'.value, index |-> ret_slow'.handle.index]
    IN  /\ (call'.op = "push_front" /\ ret_slow'.err = "ok")
              => slow_for_each(slow') = <<new>> \o before
        /\ (call'.op = "push_back" /\ ret_slow'.err = "ok")
              => slow_for_each(slow') = before \o <<new>>
        /\ (call'.op \in {"push_front", "push_back"} /\ ret_slow'.err = "ok")
              => /\ slow_size(slow') = SizeInc(slow_size(slow))
                 /\ slow_empty(slow) =>
                       (slow'.head_ = new.index /\ slow'.tail_ = new.index)

C17_FastStep ==
    LET before == fast_for_each(fast)
        new == [value |-> call'.value, index |-> ret_fast'.handle.index]
    IN  /\ (call'.op = "push_front" /\ ret_fast'.err = "ok")
              => fast_for_each(fast') = <<new>> \o before
        /\ (call'.op = "push_back" /\ ret_fast'.err = "ok")
              => fast_for_each(fast') = before \o <<new>>
        /\ (call'.op \in {"push_front", "push_back"} /\ ret_fast'.err = "ok")
              => /\ fast_size(fast') = SizeInc(fast_size(fast))
                 /\ fast_empty(fast) =>
                       (fast'.head_ = new.index /\ fast'.tail_ = new.index)

C17_PushLinksAtEnds == [][C17_SlowStep /\ C17_FastStep]_vars

\* C18: push_front, push_back and insert_after with a handle that validates
\* fail with CapacityExhausted exactly when the free-list is empty, which is
\* exactly when size() equals capacity(); a successful insertion takes one
\* index off the free-list, stores the value in that slot, raises that slot's
\* generation by one and returns a handle with that index and the new
\* generation.
C18_SlowStep ==
    (/\ call'.op \in InsertOps
     /\ call'.op = "insert_after" => slow_ensure_valid_handle(slow, call'.handle))
    => /\ (ret_slow'.err = "CapacityExhausted") <=> (slow.free_list_ = <<>>)
       /\ (slow.free_list_ = <<>>) <=> (slow_size(slow) = slow_capacity(slow))
       /\ ret_slow'.err # "CapacityExhausted" =>
             LET idx == ret_slow'.handle.index
             IN  /\ ret_slow'.err = "ok"
                 /\ idx = vec_back(slow.free_list_)
                 /\ slow'.free_list_ = vec_pop_back(slow.free_list_)
                 /\ slow'.nodes_[idx].value = call'.value
                 /\ slow'.nodes_[idx].generation = slow.nodes_[idx].generation + 1
                 /\ ret_slow'.handle.generation = slow'.nodes_[idx].generation

C18_FastStep ==
    (/\ call'.op \in InsertOps
     /\ call'.op = "insert_after" => fast_ensure_valid_handle(fast, call'.handle))
    => /\ (ret_fast'.err = "CapacityExhausted") <=> (fast.free_list_ = <<>>)
       /\ (fast.free_list_ = <<>>) <=> (fast_size(fast) = fast_capacity(fast))
       /\ ret_fast'.err # "CapacityExhausted" =>
             LET idx == ret_fast'.handle.index
             IN  /\ ret_fast'.err = "ok"
                 /\ idx = vec_back(fast.free_list_)
                 /\ fast'.free_list_ = vec_pop_back(fast.free_list_)
                 /\ fast'.values_[idx] = call'.value
                 /\ fast'.generations_[idx] = fast.generations_[idx] + 1
                 /\ ret_fast'.handle.generation = fast'.generations_[idx]

C18_InsertionTakesFreeSlot == [][C18_SlowStep /\ C18_FastStep]_vars

\* insert_after, anchored at an element of the chain, has just filled the
\* list's last free slot, one that held an element before: the handle it
\* returned is of generation 2 or more.
C18_Witness ==
    /\ call.op = "insert_after"
    /\ Ok
    /\ call.handle.index # ret_slow.handle.index
    /\ call.handle.index \in slow_live(slow)
    /\ ret_slow.handle.index \in slow_live(slow)
    /\ ret_slow.handle.generation >= 2
    /\ slow.nodes_[ret_slow.handle.index].generation = ret_slow.handle.generation
    /\ slow.free_list_ = <<>>
    /\ slow_size(slow) = slow_capacity(slow)

\* 1 for the slot a successful insertion has just allocated, 0 for every other
\* slot and for every other call.
C19_Allocated(op, ret, i) ==
    IF op \in InsertOps /\ ret.err = "ok" /\ ret.handle.index = i THEN 1 ELSE 0

C19_SlowStep ==
    \A i \in DOMAIN slow.nodes_ :
       /\ slow'.nodes_[i].generation >= slow.nodes_[i].generation
       /\ slow'.nodes_[i].generation =
             slow.nodes_[i].generation + C19_Allocated(call'.op, ret_slow', i)
       /\ (call'.op \in RemoveOps \/ ret_slow'.err \in Errors)
             => slow'.nodes_[i].generation = slow.nodes_[i].generation

C19_FastStep ==
    \A i \in DOMAIN fast.generations_ :
       /\ fast'.generations_[i] >= fast.generations_[i]
       /\ fast'.generations_[i] =
             fast.generations_[i] + C19_Allocated(call'.op, ret_fast', i)
       /\ (call'.op \in RemoveOps \/ ret_fast'.err \in Errors)
             => fast'.generations_[i] = fast.generations_[i]

\* C19: every slot's generation is 0 in a newly constructed list and, below
\* the wrap of the counter, never decreases: it rises by exactly one when an
\* insertion takes the slot from the free-list and is left alone by erase,
\* erase_after, pop_front, by calls that fail and by calls on other slots.
C19_GenerationCountsAllocations ==
    /\ \A i \in DOMAIN slow.nodes_ : slow.nodes_[i].generation = 0
    /\ \A i \in DOMAIN fast.generations_ : fast.generations_[i] = 0
    /\ [][C19_SlowStep /\ C19_FastStep]_vars

\* erase has just removed an element from a slot on its second allocation
\* while another slot is still at generation 0 or 1: the erased slot's
\* generation is still the erased handle's.
C19_Witness ==
    /\ call.op = "erase"
    /\ Ok
    /\ call.handle.generation = 2
    /\ slow.nodes_[call.handle.index].generation = 2
    /\ fast.generations_[call.handle.index] = 2
    /\ call.handle.index \in Range(slow.free_list_)
    /\ \E i \in DOMAIN slow.nodes_ : slow.nodes_[i].generation < 2

\* C20: erase, erase_after and insert_after accept their handle exactly when
\* 0 <= handle.index < capacity and the generation of that slot equals
\* handle.generation; with index -1 (the default-constructed handle) or an
\* index >= capacity they fail with InvalidHandle whatever the slots hold.
C20_SlowStep ==
    call'.op \in HandleOps =>
       LET h == call'.handle
           in_range == 0 <= h.index /\ h.index < slow_capacity(slow)
       IN  /\ (ret_slow'.err # "InvalidHandle")
              <=> (in_range /\ slow.nodes_[h.index].generation = h.generation)
           /\ (h.index = -1 \/ h.index >= slow_capacity(slow))
              => (ret_slow'.err = "InvalidHandle" /\ slow' = slow)

C20_FastStep ==
    call'.op \in HandleOps =>
       LET h == call'.handle
           in_range == 0 <= h.index /\ h.index < fast_capacity(fast)
       IN  /\ (ret_fast'.err # "InvalidHandle")
              <=> (in_range /\ fast.generations_[h.index] = h.generation)
           /\ (h.index = -1 \/ h.index >= fast_capacity(fast))
              => (ret_fast'.err = "InvalidHandle" /\ fast' = fast)

C20_ValidationIsRangeAndGeneration == [][C20_SlowStep /\ C20_FastStep]_vars

\* A call whose handle has an index equal to the capacity has just been
\* rejected, on a list that holds an element and has reused a slot.
C20_Witness ==
    /\ call.op \in HandleOps
    /\ Failed("InvalidHandle")
    /\ call.handle.index = slow_capacity(slow)
    /\ slow_size(slow) >= 1
    /\ Retired(issued.slow) # {}

\* C21: constructing with capacity 0 fails with InvalidCapacity and builds
\* nothing; constructing with capacity n > 0 gives a list with capacity() = n,
\* size() = 0, null head and tail, every slot at generation 0 with null
\* links, and each of the n slot indices on the free-list once.
C21_Construction ==
    call.op = "construct" =>
       IF call.value = 0
       THEN /\ Failed("InvalidCapacity")
            /\ slow = slow_members
            /\ fast = fast_members
       ELSE /\ Ok
            /\ slow_capacity(slow) = call.value
            /\ fast_capacity(fast) = call.value
            /\ slow_size(slow) = 0 /\ fast_size(fast) = 0
            /\ slow.head_ = kNull /\ slow.tail_ = kNull
            /\ fast.head_ = kNull /\ fast.tail_ = kNull
            /\ \A i \in DOMAIN slow.nodes_ :
                  /\ slow.nodes_[i].generation = 0
                  /\ slow.nodes_[i].next = kNull
                  /\ slow.nodes_[i].prev = kNull
            /\ \A i \in DOMAIN fast.values_ :
                  /\ fast.generations_[i] = 0
                  /\ fast.next_[i] = kNull
                  /\ fast.prev_[i] = kNull
            /\ DOMAIN slow.nodes_ = 0..(call.value - 1)
            /\ DOMAIN fast.values_ = 0..(call.value - 1)
            /\ \A i \in 0..(call.value - 1) :
                  Count(slow.free_list_, i) = 1 /\ Count(fast.free_list_, i) = 1
            /\ Len(slow.free_list_) = call.value
            /\ Len(fast.free_list_) = call.value

\* The constructor has just built a list of the largest capacity.
C21_Witness ==
    /\ call.op = "construct"
    /\ call.value = MaxCapacity
    /\ Ok
    /\ slow_capacity(slow) = MaxCapacity
    /\ Len(slow.free_list_) = MaxCapacity

\* The slots for_each calls fn on in its first n loop iterations, in order.
RECURSIVE slow_walk(_, _, _)
slow_walk(L, idx, n) ==
    IF idx = kNull \/ n = 0 THEN <<>>
    ELSE <<idx>> \o slow_walk(L, L.nodes_[idx].next, n - 1)

RECURSIVE fast_walk(_, _, _)
fast_walk(L, idx, n) ==
    IF idx = kNull \/ n = 0 THEN <<>>
    ELSE <<idx>> \o fast_walk(L, L.next_[idx], n - 1)

\* s holds no element twice.
NoRepeat(s) == \A j, k \in 1..Len(s) : s[j] = s[k] => j = k

\* C22: in every reachable state for_each terminates: starting at head and
\* following next it reaches null after at most capacity() slots and visits
\* no slot twice.  (for_each is const: it neither changes the list nor
\* depends on an earlier traversal, so two traversals in a row visit the
\* same slots.)
C22_ForEachTerminates ==
    /\ Len(slow_walk(slow, slow.head_, slow_capacity(slow) + 1)) <= slow_capacity(slow)
    /\ NoRepeat(slow_walk(slow, slow.head_, slow_capacity(slow) + 1))
    /\ Len(fast_walk(fast, fast.head_, fast_capacity(fast) + 1)) <= fast_capacity(fast)
    /\ NoRepeat(fast_walk(fast, fast.head_, fast_capacity(fast) + 1))

\* C23: capacity() does not change over any call; capacity(), size(), empty()
\* and at() leave every part of both lists as it was; capacity() and size()
\* return the number of slots and size_, and empty() returns true exactly
\* when size() is 0.
C23_QueryStep ==
    /\ slow_capacity(slow') = slow_capacity(slow)
    /\ fast_capacity(fast') = fast_capacity(fast)
    /\ call'.op \in QueryOps => (slow' = slow /\ fast' = fast)
    /\ call'.op = "capacity" =>
          /\ ret_slow'.value = Cardinality(DOMAIN slow.nodes_)
          /\ ret_fast'.value = Cardinality(DOMAIN fast.values_)
    /\ call'.op = "size" =>
          /\ ret_slow'.value = slow.size_
          /\ ret_fast'.value = fast.size_
    /\ call'.op = "empty" =>
          /\ (ret_slow'.value = 1) <=> (slow_size(slow) = 0)
          /\ (ret_fast'.value = 1) <=> (fast_size(fast) = 0)

C23_QueriesChangeNothing == [][C23_QueryStep]_vars

\* empty() has just returned false on a list whose head is null although its
\* size is not 0, after a slot was erased through a handle of a removed
\* element.
C23_Witness ==
    /\ call.op = "empty"
    /\ Ok
    /\ ret_slow.value = 0
    /\ slow.head_ = kNull
    /\ slow_size(slow) # 0

\* C24: from_raw(r).raw_value() is r for every raw value r of the storage
\* range, and ==, < and <= on two FixedDouble values give what the same
\* comparison gives on their raw values.
C24_RawRoundTrip ==
    /\ fixed.op = "from_raw" => raw_value(fixed.out) = fixed.a
    /\ fixed.op = "eq" => (fixed.flag <=> fixed.a = fixed.b)
    /\ fixed.op = "lt" => (fixed.flag <=> fixed.a < fixed.b)
    /\ fixed.op = "le" => (fixed.flag <=> fixed.a <= fixed.b)

\* The smallest raw value has just gone through from_raw unchanged.
C24_Witness ==
    /\ fixed.op = "from_raw"
    /\ fixed.a = kMinRaw
    /\ raw_value(fixed.out) = kMinRaw

\* q is n / d truncated toward zero: n = q * d + r with |r| < |d| and r zero
\* or of n's sign.
IsTruncatedQuotient(q, n, d) ==
    LET r == n - q * d
    IN  /\ Abs(r) < Abs(d)
        /\ (r = 0 \/ (r < 0) = (n < 0))

\* raw is n / d truncated toward zero and then limited to the storage range:
\* the quotient itself when it fits, kMaxRaw when the exact quotient is at or
\* above kMaxRaw, kMinRaw when it is at or below kMinRaw.
IsClampedQuotient(raw, n, d) ==
    /\ kMinRaw <= raw /\ raw <= kMaxRaw
    /\ (kMinRaw < raw /\ raw < kMaxRaw) => IsTruncatedQuotient(raw, n, d)
    /\ raw = kMaxRaw =>
          \/ (d > 0 /\ n >= kMaxRaw * d)
          \/ (d < 0 /\ n <= kMaxRaw * d)
    /\ raw = kMinRaw =>
          \/ (d > 0 /\ n <= kMinRaw * d)
          \/ (d < 0 /\ n >= kMinRaw * d)

\* C25: FixedDouble arithmetic saturates: from_int(v) has raw value
\* clamp(v * 1000), a * b has clamp(trunc(a.raw * b.raw / 1000)) and a / b
\* with b.raw # 0 has clamp(trunc(a.raw * 1000 / b.raw)), the intermediate
\* exact and the clamp to the storage range; so 1.5 * 2 is 3.0 and 3.25 / 2
\* is 1.625.
C25_SaturatingArithmetic ==
    /\ fixed.op = "from_int" => IsClampedQuotient(fixed.out.raw_, fixed.a * 1000, 1)
    /\ fixed.op = "mul" => IsClampedQuotient(fixed.out.raw_, fixed.a * fixed.b, 1000)
    /\ (fixed.op = "div" /\ fixed.b # 0) =>
          /\ fixed.err = "ok"
          /\ IsClampedQuotient(fixed.out.raw_, fixed.a * 1000, fixed.b)
    /\ (fixed.op = "mul" /\ fixed.a = 1500 /\ fixed.b = 2000) => fixed.out.raw_ = 3000
    /\ (fixed.op = "div" /\ fixed.a = 3250 /\ fixed.b = 2000) => fixed.out.raw_ = 1625

\* A product below the storage range has just been limited to kMinRaw:
\* the largest raw value times -2.0.
C25_Witness ==
    /\ fixed.op = "mul"
    /\ fixed.a = kMaxRaw
    /\ fixed.b = -2000
    /\ fixed.out.raw_ = kMinRaw

\* C26: a successful erase, erase_after or pop_front releases one slot: the
\* slot's stored value is cleared (back to T{}), both of its links are null,
\* its index is pushed onto the free-list and its generation is unchanged;
\* at(index) then no longer returns the value of the removed element.
C26_SlowStep ==
    (call'.op \in RemoveOps /\ ret_slow'.err = "ok") =>
       LET idx == vec_back(slow'.free_list_)
       IN  /\ slow'.free_list_ = vec_push_back(slow.free_list_, idx)
           /\ slow'.nodes_[idx].next = kNull
           /\ slow'.nodes_[idx].prev = kNull
           /\ slow'.nodes_[idx].generation = slow.nodes_[idx].generation
           /\ slow'.nodes_[idx].value = 0
           /\ slow_at(slow', idx).value # slow.nodes_[idx].value

C26_FastStep ==
    (call'.op \in RemoveOps /\ ret_fast'.err = "ok") =>
       LET idx == vec_back(fast'.free_list_)
       IN  /\ fast'.free_list_ = vec_push_back(fast.free_list_, idx)
           /\ fast'.next_[idx] = kNull
           /\ fast'.prev_[idx] = kNull
           /\ fast'.generations_[idx] = fast.generations_[idx]
           /\ fast'.values_[idx] = 0
           /\ fast_at(fast', idx).value # fast.values_[idx]

C26_ReleaseClearsSlot == [][C26_SlowStep /\ C26_FastStep]_vars

\* C27: with the generation incremented modulo 2^w, a handle captured for a
\* slot validates again once the slot has been released and allocated again
\* exactly 2^w times, and does not validate after 1 to 2^w - 1 such
\* reallocations.
C27_HandleRevalidatesAtWrap ==
    (issued.slow # <<>> /\ issued.fast # <<>> /\ calls >= 1) =>
       /\ calls <= GenModulus
       /\ slow_ensure_valid_handle(slow, issued.slow[1]) <=> (calls = GenModulus)
       /\ fast_ensure_valid_handle(fast, issued.fast[1]) <=> (calls = GenModulus)

\* The captured handle's slot has been allocated again 2^w times, holds an
\* element, and the handle validates.
C27_Witness ==
    /\ issued.slow # <<>>
    /\ calls = GenModulus
    /\ slow_ensure_valid_handle(slow, issued.slow[1])
    /\ fast_ensure_valid_handle(fast, issued.fast[1])
    /\ issued.slow[1].index \in slow_live(slow)

\* The handles of the elements that are live: of the handles the insertions
\* returned, those that validate and whose slot for_each visits.
slow_live_handles(L, hs) ==
    {h \in Range(hs) : slow_ensure_valid_handle(L, h) /\ h.index \in slow_live(L)}
fast_live_handles(L, hs) ==
    {h \in Range(hs) : fast_ensure_valid_handle(L, h) /\ h.index \in fast_live(L)}

\* The slot a removal call is aimed at: the one the handle names for erase,
\* the head for pop_front, the successor of the named one for erase_after;
\* null for the other calls.
slow_target(L, c) ==
    CASE c.op = "erase" -> c.handle.index
      [] c.op = "pop_front" -> L.head_
      [] c.op = "erase_after" ->
            IF slow_ensure_valid_node(L, c.handle.index)
            THEN L.nodes_[c.handle.index].next ELSE kNull
      [] OTHER -> kNull
fast_target(L, c) ==
    CASE c.op = "erase" -> c.handle.index
      [] c.op = "pop_front" -> L.head_
      [] c.op = "erase_after" ->
            IF fast_ensure_valid_node(L, c.handle.index)
            THEN L.next_[c.handle.index] ELSE kNull
      [] OTHER -> kNull

\* C28: index stability.  Over every call, successful or failed, each live
\* element the call is not aimed at stays live: its handle still validates,
\* at(handle.index) returns the value it returned before, for_each still
\* visits it, and it is visited before another such element exactly when it
\* was before the call.
C28_SlowStep ==
    LET kept == {h \in slow_live_handles(slow, issued.slow) :
                    h.index # slow_target(slow, call')}
        before == slow_for_each(slow)
        after == slow_for_each(slow')
    IN  \A h \in kept :
           /\ slow_ensure_valid_handle(slow', h)
           /\ slow_at(slow', h.index).value = slow_at(slow, h.index).value
           /\ PositionOf(after, h.index) # 0
           /\ \A g \in kept :
                 (PositionOf(before, h.index) < PositionOf(before, g.index))
                    <=> (PositionOf(after, h.index) < PositionOf(after, g.index))

C28_FastStep ==
    LET kept == {h \in fast_live_handles(fast, issued.fast) :
                    h.index # fast_target(fast, call')}
        before == fast_for_each(fast)
        after == fast_for_each(fast')
    IN  \A h \in kept :
           /\ fast_ensure_valid_handle(fast', h)
           /\ fast_at(fast', h.index).value = fast_at(fast, h.index).value
           /\ PositionOf(after, h.index) # 0
           /\ \A g \in kept :
                 (PositionOf(before, h.index) < PositionOf(before, g.index))
                    <=> (PositionOf(after, h.index) < PositionOf(after, g.index))

C28_IndexStability == [][C28_SlowStep /\ C28_FastStep]_vars

\* The slots reached from idx by following prev, at most n of them.
RECURSIVE slow_walk_back(_, _, _)
slow_walk_back(L, idx, n) ==
    IF idx = kNull \/ n = 0 THEN <<>>
    ELSE <<idx>> \o slow_walk_back(L, L.nodes_[idx].prev, n - 1)

RECURSIVE fast_walk_back(_, _, _)
fast_walk_back(L, idx, n) ==
    IF idx = kNull \/ n = 0 THEN <<>>
    ELSE <<idx>> \o fast_walk_back(L, L.prev_[idx], n - 1)

\* C29: in every reachable state the chain is consistently doubly linked:
\* each slot n that for_each visits has prev[n] null or next[prev[n]] = n,
\* and next[n] null or prev[next[n]] = n; and following prev from tail
\* visits the slots for_each visits from head, in the reverse order.
C29_DoublyLinked ==
    /\ \A n \in slow_live(slow) :
          /\ slow.nodes_[n].prev = kNull
                \/ slow.nodes_[slow.nodes_[n].prev].next = n
          /\ slow.nodes_[n].next = kNull
                \/ slow.nodes_[slow.nodes_[n].next].prev = n
    /\ Reverse(slow_walk_back(slow, slow.tail_, slow_capacity(slow) + 1))
          = slow_walk(slow, slow.head_, slow_capacity(slow) + 1)
    /\ \A n \in fast_live(fast) :
          /\ fast.prev_[n] = kNull \/ fast.next_[fast.prev_[n]] = n
          /\ fast.next_[n] = kNull \/ fast.prev_[fast.next_[n]] = n
    /\ Reverse(fast_walk_back(fast, fast.tail_, fast_capacity(fast) + 1))
          = fast_walk(fast, fast.head_, fast_capacity(fast) + 1)

\* C30: in every reachable state the three size measures agree: size() is
\* the number of elements for_each visits and is capacity() minus the length
\* of the free-list; the free-list holds no index twice and at most
\* capacity() entries.
C30_SizeMeasuresAgree ==
    /\ slow_size(slow) = Len(slow_for_each(slow))
    /\ slow_size(slow) = slow_capacity(slow) - Len(slow.free_list_)
    /\ NoRepeat(slow.free_list_)
    /\ Len(slow.free_list_) <= slow_capacity(slow)
    /\ fast_size(fast) = Len(fast_for_each(fast))
    /\ fast_size(fast) = fast_capacity(fast) - Len(fast.free_list_)
    /\ NoRepeat(fast.free_list_)
    /\ Len(fast.free_list_) <= fast_capacity(fast)

\* C31: the handles the successful insertions on one list have returned are
\* pairwise distinct as (index, generation) pairs, as long as no generation
\* has wrapped, and each of them has a generation of at least 1.
C31_HandlesDistinct ==
    /\ NoRepeat(issued.slow)
    /\ \A k \in 1..Len(issued.slow) : issued.slow[k].generation >= 1
    /\ NoRepeat(issued.fast)
    /\ \A k \in 1..Len(issued.fast) : issued.fast[k].generation >= 1

\* Two insertions have returned the same slot index, the second after the
\* slot was released, and a third handle names another slot.
C31_Witness ==
    /\ \E j, k \in 1..Len(issued.slow) :
          /\ j < k
          /\ issued.slow[j].index = issued.slow[k].index
          /\ issued.slow[j].generation < issued.slow[k].generation
    /\ \E j, k \in 1..Len(issued.fast) :
          /\ j < k
          /\ issued.fast[j].index = issued.fast[k].index
          /\ issued.fast[j].generation < issued.fast[k].generation
    /\ \E j, k \in 1..Len(issued.slow) : issued.slow[j].index # issued.slow[k].index

\* C32: slot reuse is last in, first out.  While no removal has succeeded,
\* the k-th successful insertion returns slot k - 1 with generation 1.  Every
\* successful removal leaves the slot it released at the back of the
\* free-list, a failed call leaves the free-list as it was, and every
\* successful insertion takes the slot at the back of the free-list: so the
\* first successful insertion after a removal reuses the slot released last.
C32_SlowStep ==
    /\ (call'.op \in InsertOps /\ ret_slow'.err = "ok") =>
          /\ ret_slow'.handle.index = vec_back(slow.free_list_)
          /\ net.slow = Len(issued.slow) =>
                ret_slow'.handle = [index |-> Len(issued.slow), generation |-> 1]
    /\ (call'.op \in RemoveOps /\ ret_slow'.err = "ok") =>
          /\ slow'.free_list_ # <<>>
          /\ vec_back(slow'.free_list_) = slow_target(slow, call')
    /\ ret_slow'.err # "ok" => slow'.free_list_ = slow.free_list_

C32_FastStep ==
    /\ (call'.op \in InsertOps /\ ret_fast'.err = "ok") =>
          /\ ret_fast'.handle.index = vec_back(fast.free_list_)
          /\ net.fast = Len(issued.fast) =>
                ret_fast'.handle = [index |-> Len(issued.fast), generation |-> 1]
    /\ (call'.op \in RemoveOps /\ ret_fast'.err = "ok") =>
          /\ fast'.free_list_ # <<>>
          /\ vec_back(fast'.free_list_) = fast_target(fast, call')
    /\ ret_fast'.err # "ok" => fast'.free_list_ = fast.free_list_

C32_SlotReuseIsLifo == [][C32_SlowStep /\ C32_FastStep]_vars

\* The last call was an insertion on lists that had released two slots, and
\* it returned the slot released last, not slot 0, for the second time.
C32_Witness ==
    /\ Ok
    /\ call.op \in InsertOps
    /\ net.slow + 1 < Len(issued.slow)
    /\ ret_slow.handle.index >= 1
    /\ ret_slow.handle.generation = 2
    /\ ret_fast.handle = ret_slow.handle
    /\ ret_slow.handle.index \in slow_live(slow)
    /\ Len(slow.free_list_) = slow_capacity(slow) - slow_size(slow)

\* The orders of the elements a book's list holds, in list order, and the
\* orders its stored handles name, in handle order.
slow_book_orders(B) == slow_for_each_value_unchecked(B.list_)
fast_book_orders(B) == fast_for_each_value_unchecked(B.list_)
slow_book_named(B) ==
    [k \in 1..Len(B.handles_) |-> slow_at(B.list_, B.handles_[k].index).value]
fast_book_named(B) ==
    [k \in 1..Len(B.handles_) |-> fast_at(B.list_, B.handles_[k].index).value]

\* The handle vector after cancel_at_position(pos), pos < size(): the last
\* handle stands at position pos and the vector is one shorter.
SwapRemove(hs, pos) ==
    [k \in 1..(Len(hs) - 1) |-> IF k = pos + 1 THEN hs[Len(hs)] ELSE hs[k]]

\* C33 as a state property: handles_.size() == list_.size(), and the stored
\* handles validate and name pairwise distinct elements of the chain.
C33_SlowCorresponds(B) ==
    /\ slow_book_size(B) = slow_size(B.list_)
    /\ slow_book_size(B) = Len(slow_for_each(B.list_))
    /\ \A k \in 1..Len(B.handles_) :
          /\ slow_ensure_valid_handle(B.list_, B.handles_[k])
          /\ B.handles_[k].index \in slow_live(B.list_)
    /\ \A j, k \in 1..Len(B.handles_) :
          B.handles_[j].index = B.handles_[k].index => j = k

C33_FastCorresponds(B) ==
    /\ fast_book_size(B) = fast_size(B.list_)
    /\ fast_book_size(B) = Len(fast_for_each(B.list_))
    /\ \A k \in 1..Len(B.handles_) :
          /\ fast_ensure_valid_handle(B.list_, B.handles_[k])
          /\ B.handles_[k].index \in fast_live(B.list_)
    /\ \A j, k \in 1..Len(B.handles_) :
          B.handles_[j].index = B.handles_[k].index => j = k

\* C33 over one call of cancel_at_position(pos): with pos >= size() the book
\* is unchanged; with pos < size() the list loses exactly the element of
\* handles_[pos], and the last handle moves to position pos.
C33_SlowCancel ==
    LET B == bench.slow_book
        pos == bench'.step.cancel_pos
        k == PositionOf(slow_for_each(B.list_), B.handles_[pos + 1].index)
    IN  bench'.step.op = "Cancel" =>
           IF pos >= slow_book_size(B)
           THEN bench'.slow_book = B /\ bench'.err.slow = "ok"
           ELSE /\ bench'.err.slow = "ok"
                /\ k # 0
                /\ slow_for_each(bench'.slow_book.list_)
                      = DeleteAt(slow_for_each(B.list_), k)
                /\ bench'.slow_book.handles_ = SwapRemove(B.handles_, pos)

C33_FastCancel ==
    LET B == bench.fast_book
        pos == bench'.step.cancel_pos
        k == PositionOf(fast_for_each(B.list_), B.handles_[pos + 1].index)
    IN  bench'.step.op = "Cancel" =>
           IF pos >= fast_book_size(B)
           THEN bench'.fast_book = B /\ bench'.err.fast = "ok"
           ELSE /\ bench'.err.fast = "ok"
                /\ k # 0
                /\ fast_for_each(bench'.fast_book.list_)
                      = DeleteAt(fast_for_each(B.list_), k)
                /\ bench'.fast_book.handles_ = SwapRemove(B.handles_, pos)

\* C33: after any sequence of add and cancel_at_position calls an
\* ArrayListBook's handle vector corresponds one to one to the elements of
\* its list: as many handles as size(), each validating and naming an
\* element of the chain of its own; cancel_at_position(pos) changes nothing
\* for pos >= size(), and for pos < size() removes exactly the element of
\* handles_[pos] and moves the last handle into position pos.  An add on a
\* full book throws and leaves the book as it was, so the correspondence
\* also holds in the runs that make one.
C33_BookCorresponds ==
    /\ C33_SlowCorresponds(bench.slow_book)
    /\ C33_FastCorresponds(bench.fast_book)
    /\ [][/\ C33_SlowCancel
          /\ C33_FastCancel
          /\ C33_SlowCorresponds(bench'.slow_book)
          /\ C33_FastCorresponds(bench'.fast_book)]_vars

\* A cancel in the middle of a full book of capacity at least 2 has moved the
\* last handle into the gap, after an earlier cancel and a re-add.
C33_Witness ==
    /\ bench.pc = "books"
    /\ bench.step.op = "Cancel"
    /\ bench.step.cancel_pos = 0
    /\ bench.order_idx >= 3
    /\ ~bench.overflowed
    /\ slow_book_size(bench.slow_book) >= 1
    /\ bench.slow_book.handles_[1].generation >= 1
    /\ bench.slow_book.handles_[1].index # 0
    /\ bench.err.slow = "ok"

\* The three books hold n orders each.
BooksHold(b, n) ==
    /\ slow_book_size(b.slow_book) = n
    /\ Len(slow_book_orders(b.slow_book)) = n
    /\ fast_book_size(b.fast_book) = n
    /\ Len(fast_book_orders(b.fast_book)) = n
    /\ list_book_size(b.list_book) = n
    /\ Len(b.list_book.orders_) = n

\* The last call on the books ended normally on all three.
BooksOk(b) == b.err = [slow |-> "ok", fast |-> "ok", list |-> "ok"]

\* C34 while the workloads are precomputed: a position is drawn only at a
\* depth above 0 and is below the depth; an Add step is generated only at a
\* depth below capacity; the tracked depth follows the steps.
C34_Generate ==
    /\ Len(bench'.erase_positions) > Len(bench.erase_positions) =>
          /\ bench.depth > 0
          /\ vec_back(bench'.erase_positions) < bench.depth
          /\ bench'.depth = bench.depth - 1
    /\ Len(bench'.churn_steps) > Len(bench.churn_steps) =>
          LET step == vec_back(bench'.churn_steps)
          IN  IF step.op = "Add"
              THEN bench.depth < bench.capacity /\ bench'.depth = bench.depth + 1
              ELSE /\ step.op = "Cancel"
                   /\ bench.depth > 0
                   /\ step.cancel_pos < bench.depth
                   /\ bench'.depth = bench.depth - 1

\* C34 while a workload is replayed: the preload fills the books to
\* capacity; no step ends with an exception; a Cancel step leaves each book
\* with one order less and an Add step with one more.
C34_Replay ==
    /\ (bench.pc \in {"erase_positions", "churn_steps"} /\ bench'.pc # bench.pc) =>
          BooksOk(bench') /\ BooksHold(bench', bench.capacity)
    /\ bench'.i = bench.i + 1 =>
          /\ BooksOk(bench')
          /\ BooksHold(bench', IF bench'.step.op = "Cancel"
                                THEN slow_book_size(bench.slow_book) - 1
                                ELSE slow_book_size(bench.slow_book) + 1)
          /\ bench'.step.op = "Cancel" =>
                \E k \in 1..Len(bench.list_book.orders_) :
                    /\ slow_book_orders(bench'.slow_book)
                          = DeleteAt(slow_book_orders(bench.slow_book), k)
                    /\ fast_book_orders(bench'.fast_book)
                          = DeleteAt(fast_book_orders(bench.fast_book), k)
                    /\ bench'.list_book.orders_ = DeleteAt(bench.list_book.orders_, k)

\* C34 in every state: the tracked depth is within 0..capacity, and the erase
\* workload, once generated, has brought it to 0; replayed to its end, it
\* leaves the three books empty.
C34_Depth(b) ==
    /\ b.depth \in 0..b.capacity
    /\ b.pc = "erase_replay" => b.depth = 0
    /\ (b.pc = "erase_replay" /\ b.i = Len(b.erase_positions)) => BooksHold(b, 0)

\* C34: the precomputed erase and churn workloads keep the tracked depth in
\* 0..capacity, generate an Add only below capacity and a Cancel only above
\* depth 0 with a position below the depth; replayed on books preloaded to
\* capacity they raise no exception, every cancel removes exactly one
\* order, and the erase workload ends at depth 0.
C34_WorkloadsStayInBounds ==
    /\ C34_Depth(bench)
    /\ [][C34_Generate /\ C34_Replay /\ C34_Depth(bench')]_vars

\* A churn workload with an Add step and a later Cancel step at a position
\* above 0 has been replayed to its end.
C34_Witness ==
    /\ bench.pc = "churn_replay"
    /\ bench.i = churn_ops
    /\ BooksOk(bench)
    /\ \E j, k \in 1..Len(bench.churn_steps) :
          /\ j < k
          /\ bench.churn_steps[j].op = "Add"
          /\ bench.churn_steps[k].op = "Cancel"
          /\ bench.churn_steps[k].cancel_pos > 0

\* The three books report the same size() and the same iterate_sum().
BooksAgree(b) ==
    /\ slow_book_size(b.slow_book) = list_book_size(b.list_book)
    /\ fast_book_size(b.fast_book) = list_book_size(b.list_book)
    /\ slow_book_iterate_sum(b.slow_book) = list_book_iterate_sum(b.list_book)
    /\ fast_book_iterate_sum(b.fast_book) = list_book_iterate_sum(b.list_book)

\* C35 (as stated): after every step of any sequence of add and
\* cancel_at_position calls, made alike on a book over the row layout, a
\* book over the column layout and a StdListBook, the three report the same
\* size() and the same iterate_sum().
C35_BooksAgree == BooksAgree(bench)

\* C35 (amended): the three books report the same size() and the same
\* iterate_sum() after every step of a sequence of add and
\* cancel_at_position calls in which no add is made to a full book.
C35_BooksAgreeWithinCapacity == ~bench.overflowed => BooksAgree(bench)

\* Books of capacity 2 have been filled, an order that was not the last one
\* added has been cancelled and another one added, with no add on a full
\* book; the orders left have different qty.
C35_Witness ==
    /\ bench.pc = "books"
    /\ ~bench.overflowed
    /\ bench.step.op = "Add"
    /\ bench.order_idx = 3
    /\ list_book_size(bench.list_book) = 2
    /\ slow_book_size(bench.slow_book) = 2
    /\ bench.list_book.orders_[1].order.id = 2
    /\ bench.list_book.orders_[1].order.qty # bench.list_book.orders_[2].order.qty
    /\ slow_book_iterate_sum(bench.slow_book) = 3

\* C36: a /= b and a / b with b.raw == 0, and a / k with the integer k == 0,
\* end with overflow_error ("DivideByZero") and return no value, and the
\* left operand has the raw value it had before; with a divisor other than 0
\* none of the three ends with that error.
C36_DivideByZeroThrows ==
    fixed.op \in {"div", "div_assign", "div_int"} =>
        /\ (fixed.err = "DivideByZero") <=> (fixed.b = 0)
        /\ fixed.b = 0 => raw_value(fixed.out) = fixed.a

\* a /= b was called with a nonzero a and b.raw == 0.
C36_Witness ==
    /\ fixed.op = "div_assign"
    /\ fixed.b = 0
    /\ fixed.a = 1500
    /\ fixed.err = "DivideByZero"
    /\ raw_value(fixed.out) = 1500

\* C37: in every reachable state every slot on the free-list has both its
\* next and its prev link null.  (allocate_node sets both links of the slot
\* it hands out to null before the insert operation wires it in; that part
\* is the statement order inside allocate_node.)
C37_FreeSlotsUnlinked ==
    /\ \A k \in 1..Len(slow.free_list_) :
          /\ slow.nodes_[slow.free_list_[k]].next = kNull
          /\ slow.nodes_[slow.free_list_[k]].prev = kNull
    /\ \A k \in 1..Len(fast.free_list_) :
          /\ fast.next_[fast.free_list_[k]] = kNull
          /\ fast.prev_[fast.free_list_[k]] = kNull

====
